---------------------------- MODULE Spec2Model ----------------------------
(***************************************************************************)
(* A model of the table-stacking engine of neonutilities                   *)
(* (src/src/neonutilities/unzip_and_stack.py, read_table_neon.py).         *)
(*                                                                         *)
(* A file path is a record of the parts of the NEON file-name grammar the  *)
(* code reads with its regular expressions:                                *)
(*   dir    the enclosing folder (an index; distinct folders give distinct *)
(*          paths for one base name)                                       *)
(*   rel    the release tag that ends the folder name                      *)
(*   lab    the lab identifier of a lab file ("" for a site file)          *)
(*   site   the 4-letter site code of a site file ("" for a lab file)      *)
(*   hv     the .DOM.SITE.DPL.PRNUM.REV.HOR.VER.TMI. position segment is   *)
(*          present (sensor tables)                                        *)
(*   table  the table token without its _pub suffix                        *)
(*   pub    the table token carries the _pub suffix                        *)
(*   ym     the YYYY-MM component (0: none)                                *)
(*   date   the YYYYMMDD part of the publication stamp (0: no stamp)       *)
(*   time   the hhmmss part of the publication stamp                       *)
(* Dates and times are numbers: the stamp is fixed-width and zero-padded,  *)
(* so the order of the strings is the order of the numbers.                *)
(***************************************************************************)
EXTENDS Integers, Sequences, FiniteSets, TLC

VARIABLES
    rp_in,      \* get_recent_publication: the argument filepaths
    rp_out,     \* get_recent_publication: the list returned
    rp_pc,      \* "call", "done" or "raised"
    tt_in,      \* find_table_types: the argument datatables
    tt_out,     \* find_table_types: the mapping returned
    tt_pc,      \* "call", "done", "none" (returned None) or "raised"
    gv_in,      \* get_variables: the argument v, a list of variables rows
    gv_out,     \* get_variables: the schema returned, a list of fields
    gv_pc,      \* "call" or "done"
    srf_in,     \* remove_srf_dups: the argument srftab
    srf_out,    \* remove_srf_dups: the table returned
    srf_out2,   \* remove_srf_dups applied to srf_out
    srf_pc,     \* "call", "once" or "twice"
    filepaths,  \* stack_data_files_parallel: the files found, as listed
    package,    \* "basic" or "expanded"
    dpid,       \* the data product identifier
    pc,         \* "start", "meta", "tables", "final", "done", "none", "raised"
    table_types,\* table name -> "lab", "site-date" or "site-all"
    todo,       \* the tables the loop has still to stack
    varfile,    \* v, the variables file read: a list of rows
    vlist,      \* table name -> the field names of its variables rows
    stacklist,  \* the bundle: output name -> table
    releases,   \* the release tags of the stacked files
    log,        \* the messages logged
    exc,        \* the exception raised, "" when none
    readpaths,  \* table name -> the files read for it
    cite,       \* what get_issue_log and get_citation answered
    returned,   \* stack_by_table: savepath, the keys returned, in order, and
                \* whether the input files were deleted
    fmt_in,     \* table_type_formats: flname, the components of a file name
    fmt_out,    \* table_type_formats: the type returned
    fmt_pc,     \* "call" or "done"
    aop_fn,     \* the download function called: by_file_aop or by_tile_aop
    aop_in,     \* its arguments dpid, site, year, easting, northing
    aop_pc,     \* the check the call has reached, or how it ended
    aop_exc,    \* the message of the ValueError raised, "" when none
    aop_calls,  \* the number of requests sent to the API
    sd_in,      \* sort_dat: pdata, its rows and its columns
    sd_out,     \* sort_dat: the rows returned
    sd_pc,      \* "call" or "done"
    sp_in,      \* align_sp_cols: sptab, its rows and its columns
    sp_out,     \* align_sp_cols: the table returned
    sp_pc,      \* "call", "done" or "raised"
    api_srv,    \* get_api: what the server answers to each request in turn
    api_j,      \* get_api: the attempt counter j
    api_reqs,   \* get_api: the number of requests sent
    api_slept,  \* get_api: the seconds slept waiting for the rate limit
    api_ret,    \* get_api: what was returned
    api_pc,     \* "connect", "loop", "returned" or "raised"
    dl_srv,     \* download_urls: per url, the outcome of each request in turn
    dl_i,       \* download_urls: the index of the url being downloaded
    dl_j,       \* download_urls: the attempt counter j
    dl_tries,   \* download_urls: per url, the number of requests sent
    dl_saved,   \* download_urls: the urls whose file was written
    dl_log,     \* download_urls: the messages logged
    dl_pc,      \* "loop", "attempt" or "returned"
    tile_in,    \* by_tile_aop: easting, northing and buffer
    tile_out,   \* by_tile_aop: the tiles selected
    tile_pc     \* "call" or "done"

recentVars == <<rp_in, rp_out, rp_pc>>
typesVars == <<tt_in, tt_out, tt_pc>>
schemaVars == <<gv_in, gv_out, gv_pc>>
srfVars == <<srf_in, srf_out, srf_out2, srf_pc>>

jobVars == <<filepaths, package, dpid, pc, table_types, todo, varfile, vlist,
             stacklist, releases, log, exc, readpaths, cite, returned>>

fmtVars == <<fmt_in, fmt_out, fmt_pc>>
aopVars == <<aop_fn, aop_in, aop_pc, aop_exc, aop_calls>>

sortVars == <<sd_in, sd_out, sd_pc>>
alignVars == <<sp_in, sp_out, sp_pc>>
apiVars == <<api_srv, api_j, api_reqs, api_slept, api_ret, api_pc>>
dlVars == <<dl_srv, dl_i, dl_j, dl_tries, dl_saved, dl_log, dl_pc>>
tileVars == <<tile_in, tile_out, tile_pc>>
laterVars == <<sortVars, alignVars, apiVars, dlVars, tileVars>>

vars == <<recentVars, typesVars, schemaVars, srfVars, jobVars, fmtVars, aopVars,
          laterVars>>

SortIdle == sd_in = <<>> /\ sd_out = <<>> /\ sd_pc = "idle"
AlignIdle == sp_in = <<>> /\ sp_out = <<>> /\ sp_pc = "idle"
ApiIdle ==
    /\ api_srv = <<>> /\ api_j = 0 /\ api_reqs = 0 /\ api_slept = 0
    /\ api_ret = "" /\ api_pc = "idle"
DlIdle ==
    /\ dl_srv = <<>> /\ dl_i = 0 /\ dl_j = 0 /\ dl_tries = <<>>
    /\ dl_saved = {} /\ dl_log = {} /\ dl_pc = "idle"
TileIdle == tile_in = <<>> /\ tile_out = {} /\ tile_pc = "idle"
LaterIdle == SortIdle /\ AlignIdle /\ ApiIdle /\ DlIdle /\ TileIdle

----------------------------------------------------------------------------
(* Bounds *)

MaxDate == 2
MaxTime == 2
MaxRecent == 3
MaxTypes == 3
MaxVarRows == 2
MaxSrfRows == 3
MaxUpd == 2
MaxFiles == 4

----------------------------------------------------------------------------
(* Sequence helpers *)

Range(s) == {s[i] : i \in 1..Len(s)}

\* the sequences of distinct elements of S of length 1..n
DistinctSeqs(S, n) ==
    {s \in UNION {[1..k -> S] : k \in 1..n} :
        \A i, j \in 1..Len(s) : i # j => s[i] # s[j]}

SetMax(S) == CHOOSE m \in S : \A x \in S : x <= m

----------------------------------------------------------------------------
(* File names *)

NoStamp == 0

File(dir, rel, lab, site, hv, table, pub, ym, date, time) ==
    [dir |-> dir, rel |-> rel, lab |-> lab, site |-> site, hv |-> hv,
     table |-> table, pub |-> pub, ym |-> ym, date |-> date, time |-> time]

\* re.search(r'20\d{2}\d{2}\d{2}', os.path.basename(f)): the first run of
\* eight digits starting 20, which is the date part of the stamp; the time
\* part is not matched
PubDateMatch(f) == f.date

\* recent_pub_date in os.path.basename(f)
ContainsDate(f, d) == f.date # NoStamp /\ f.date = d

\* pub_dates = [m.group(0) for m in pub_dates if m is not None]
pub_dates(fpaths) == {PubDateMatch(f) : f \in Range(fpaths)} \ {NoStamp}

\* max(pub_dates) raises ValueError on an empty list
get_recent_publication_raises(fpaths) == pub_dates(fpaths) = {}

get_recent_publication(fpaths) ==
    LET recent_pub_date == SetMax(pub_dates(fpaths))
        isRecent(f) == ContainsDate(f, recent_pub_date)
    IN  SelectSeq(fpaths, isRecent)

----------------------------------------------------------------------------
(* File classification: table_type_formats, find_table_types *)

Months == {1, 2}
YmToken(m) == IF m = 1 THEN "2021-05" ELSE "2021-06"
YmTokens == {YmToken(m) : m \in Months}

DataTables == {"tab_a", "tab_n", "tab_l"}
LabNames == {"Lab_A", "Lab_B"}

\* the table component of a base name
TableToken(f) == IF f.pub THEN f.table \o "_pub" ELSE f.table

\* d.split("."): a lab file is NEON.<lab>.<table>.<stamp>.csv; a site file is
\* NEON.<dom>.<site>.DP1.<num>.001[.HOR.VER.TMI].<table>[.<YYYY-MM>.<pkg>].<stamp>.csv
SplitName(f) ==
    IF f.lab # ""
    THEN <<"NEON", f.lab, TableToken(f), "20210501T000000Z", "csv">>
    ELSE <<"NEON", "D01", f.site, "DP1", "10003", "001">>
         \o (IF f.hv THEN <<"000", "010", "030">> ELSE <<>>)
         \o <<TableToken(f)>>
         \o (IF f.ym # 0 THEN <<YmToken(f.ym), "basic">> ELSE <<>>)
         \o <<"20210501T000000Z", "csv">>

\* "_" in s, for the components a base name can hold
HasUnderscore(s) ==
    s \in DataTables \cup {t \o "_pub" : t \in DataTables} \cup LabNames
          \cup {"sensor_positions", "science_review_flags"}

\* str.replace(s, "_pub", "")
StripPub(s) ==
    IF \E t \in DataTables : s = t \o "_pub"
    THEN CHOOSE t \in DataTables : s = t \o "_pub"
    ELSE s

\* ord(c) for the characters c of s, for the components of the file names
\* and the keys of the bundle; 48..57 are the digits and 45 is the hyphen
ord_of(s) ==
    CASE s = "NEON" ->
            <<78, 69, 79, 78>>
      [] s = "D01" ->
            <<68, 48, 49>>
      [] s = "HARV" ->
            <<72, 65, 82, 86>>
      [] s = "BART" ->
            <<66, 65, 82, 84>>
      [] s = "DP1" ->
            <<68, 80, 49>>
      [] s = "10003" ->
            <<49, 48, 48, 48, 51>>
      [] s = "001" ->
            <<48, 48, 49>>
      [] s = "000" ->
            <<48, 48, 48>>
      [] s = "010" ->
            <<48, 49, 48>>
      [] s = "030" ->
            <<48, 51, 48>>
      [] s = "20210501T000000Z" ->
            <<50, 48, 50, 49, 48, 53, 48, 49, 84, 48, 48, 48, 48, 48, 48,
              90>>
      [] s = "csv" ->
            <<99, 115, 118>>
      [] s = "basic" ->
            <<98, 97, 115, 105, 99>>
      [] s = "2021-05" ->
            <<50, 48, 50, 49, 45, 48, 53>>
      [] s = "2021-06" ->
            <<50, 48, 50, 49, 45, 48, 54>>
      [] s = "Lab_A" ->
            <<76, 97, 98, 95, 65>>
      [] s = "Lab_B" ->
            <<76, 97, 98, 95, 66>>
      [] s = "tab_a_pub" ->
            <<116, 97, 98, 95, 97, 95, 112, 117, 98>>
      [] s = "tab_n_pub" ->
            <<116, 97, 98, 95, 110, 95, 112, 117, 98>>
      [] s = "tab_l_pub" ->
            <<116, 97, 98, 95, 108, 95, 112, 117, 98>>
      [] s = "variables" ->
            <<118, 97, 114, 105, 97, 98, 108, 101, 115>>
      [] s = "sensor_positions" ->
            <<115, 101, 110, 115, 111, 114, 95, 112, 111, 115, 105, 116,
              105, 111, 110, 115>>
      [] s = "science_review_flags" ->
            <<115, 99, 105, 101, 110, 99, 101, 95, 114, 101, 118, 105, 101,
              119, 95, 102, 108, 97, 103, 115>>
      [] s = "x2021-06y" ->
            <<120, 50, 48, 50, 49, 45, 48, 54, 121>>
      [] s = "2021-5" ->
            <<50, 48, 50, 49, 45, 53>>
      [] s = "tab_a" ->
            <<116, 97, 98, 95, 97>>
      [] s = "tab_n" ->
            <<116, 97, 98, 95, 110>>
      [] s = "tab_l" ->
            <<116, 97, 98, 95, 108>>
      [] s = "rea_conductivityRawData" ->
            <<114, 101, 97, 95, 99, 111, 110, 100, 117, 99, 116, 105, 118,
              105, 116, 121, 82, 97, 119, 68, 97, 116, 97>>
      [] s = "sensor_positions_10003" ->
            <<115, 101, 110, 115, 111, 114, 95, 112, 111, 115, 105, 116,
              105, 111, 110, 115, 95, 49, 48, 48, 48, 51>>
      [] s = "science_review_flags_10003" ->
            <<115, 99, 105, 101, 110, 99, 101, 95, 114, 101, 118, 105, 101,
              119, 95, 102, 108, 97, 103, 115, 95, 49, 48, 48, 48, 51>>
      [] s = "variables_10003" ->
            <<118, 97, 114, 105, 97, 98, 108, 101, 115, 95, 49, 48, 48, 48,
              51>>
      [] s = "readme_10003" ->
            <<114, 101, 97, 100, 109, 101, 95, 49, 48, 48, 48, 51>>
      [] s = "issueLog_10003" ->
            <<105, 115, 115, 117, 101, 76, 111, 103, 95, 49, 48, 48, 48,
              51>>
      [] s = "citation_10003_PROVISIONAL" ->
            <<99, 105, 116, 97, 116, 105, 111, 110, 95, 49, 48, 48, 48, 51,
              95, 80, 82, 79, 86, 73, 83, 73, 79, 78, 65, 76>>
      [] s = "citation_10003_RELEASE-2023" ->
            <<99, 105, 116, 97, 116, 105, 111, 110, 95, 49, 48, 48, 48, 51,
              95, 82, 69, 76, 69, 65, 83, 69, 45, 50, 48, 50, 51>>
      [] s = "citation_10003_RELEASE-2024" ->
            <<99, 105, 116, 97, 116, 105, 111, 110, 95, 49, 48, 48, 48, 51,
              95, 82, 69, 76, 69, 65, 83, 69, 45, 50, 48, 50, 52>>
      [] s = "sensor_positions_20190" ->
            <<115, 101, 110, 115, 111, 114, 95, 112, 111, 115, 105, 116,
              105, 111, 110, 115, 95, 50, 48, 49, 57, 48>>
      [] s = "science_review_flags_20190" ->
            <<115, 99, 105, 101, 110, 99, 101, 95, 114, 101, 118, 105, 101,
              119, 95, 102, 108, 97, 103, 115, 95, 50, 48, 49, 57, 48>>
      [] s = "variables_20190" ->
            <<118, 97, 114, 105, 97, 98, 108, 101, 115, 95, 50, 48, 49, 57,
              48>>
      [] s = "readme_20190" ->
            <<114, 101, 97, 100, 109, 101, 95, 50, 48, 49, 57, 48>>
      [] s = "issueLog_20190" ->
            <<105, 115, 115, 117, 101, 76, 111, 103, 95, 50, 48, 49, 57,
              48>>
      [] s = "citation_20190_PROVISIONAL" ->
            <<99, 105, 116, 97, 116, 105, 111, 110, 95, 50, 48, 49, 57, 48,
              95, 80, 82, 79, 86, 73, 83, 73, 79, 78, 65, 76>>
      [] s = "citation_20190_RELEASE-2023" ->
            <<99, 105, 116, 97, 116, 105, 111, 110, 95, 50, 48, 49, 57, 48,
              95, 82, 69, 76, 69, 65, 83, 69, 45, 50, 48, 50, 51>>
      [] s = "citation_20190_RELEASE-2024" ->
            <<99, 105, 116, 97, 116, 105, 111, 110, 95, 50, 48, 49, 57, 48,
              95, 82, 69, 76, 69, 65, 83, 69, 45, 50, 48, 50, 52>>
      [] OTHER -> <<>>

IsDigit(n) == n \in 48..57

\* re.fullmatch of [0-9]{4}-[0-9]{2} on the characters cs
ymr_fullmatch(cs) ==
    /\ Len(cs) = 7
    /\ \A k \in {1, 2, 3, 4, 6, 7} : IsDigit(cs[k])
    /\ cs[5] = 45

\* ymr.search on the characters cs: a match that starts at some position
ymr_search(cs) ==
    \E i \in 1..(Len(cs) - 6) : ymr_fullmatch(SubSeq(cs, i, i + 6))

\* a variant that asks the whole component to be a year and month
YmFullMatch(c) == ymr_fullmatch(ord_of(c))

\* ymr.search(f) with ymr = [0-9]{4}-[0-9]{2}
YmSearch(c) == ymr_search(ord_of(c))

\* a classification by the number of components alone
table_type_formats_by_length(flname) ==
    IF Len(flname) <= 6 THEN "lab" ELSE "site-all"

table_type_formats(flname) ==
    IF Len(flname) <= 6 THEN "lab"
    ELSE IF \E i \in 1..Len(flname) : YmSearch(flname[i]) THEN "site-date"
    ELSE "site-all"

\* td: for j in range(2, len(splitnames[i])), keeping the components with an
\* underscore other than the two reserved names, _pub removed
td(datatables) ==
    UNION { {StripPub(SplitName(d)[j]) :
                j \in {j \in 3..Len(SplitName(d)) :
                        /\ SplitName(d)[j] # "sensor_positions"
                        /\ SplitName(d)[j] # "science_review_flags"
                        /\ HasUnderscore(SplitName(d)[j])}} :
            d \in Range(datatables) }

\* tnkr.search(tr) with tnkr = ^tnk$|^tnk_pub$
TnkrSearch(tnk, tr) == tr = tnk \/ tr = tnk \o "_pub"

\* ttk: the set of types of the split names with a component matching tnk
ttk(datatables, tnk) ==
    {table_type_formats(SplitName(d)) :
        d \in {d \in Range(datatables) :
                \E i \in 1..Len(SplitName(d)) : TnkrSearch(tnk, SplitName(d)[i])}}

\* find_table_types returns None when td is empty
find_table_types_none(datatables) == td(datatables) = {}

\* raise ValueError(... published under conflicting schedules ...)
find_table_types_raises(datatables) ==
    \E tnk \in td(datatables) : Cardinality(ttk(datatables, tnk)) > 1

\* tt: table name -> type
find_table_types(datatables) ==
    [tnk \in td(datatables) |-> CHOOSE t \in ttk(datatables, tnk) : TRUE]

Sites == {"HARV", "BART"}

TypesPool ==
    {File(1, "RELEASE-2024", "Lab_A", "", FALSE, t, p, 0, 1, 1) :
        t \in {"tab_a", "tab_l"}, p \in BOOLEAN}
    \cup {File(1, "RELEASE-2024", "", "HARV", FALSE, t, p, m, 1, 1) :
            t \in {"tab_a", "tab_l"}, p \in BOOLEAN, m \in {0, 1}}
    \cup {File(1, "RELEASE-2024", "", "HARV", FALSE, t, FALSE, m, 1, 1) :
            t \in {"variables", "sensor_positions"}, m \in {0, 1}}

TypesInit ==
    /\ tt_in \in DistinctSeqs(TypesPool, MaxTypes)
    /\ tt_out = <<>>
    /\ tt_pc = "call"

TypesIdle ==
    /\ tt_in = <<>>
    /\ tt_out = <<>>
    /\ tt_pc = "idle"

CallFindTableTypes ==
    /\ tt_pc = "call"
    /\ IF find_table_types_none(tt_in)
       THEN tt_pc' = "none" /\ tt_out' = <<>>
       ELSE IF find_table_types_raises(tt_in)
       THEN tt_pc' = "raised" /\ tt_out' = <<>>
       ELSE tt_pc' = "done" /\ tt_out' = find_table_types(tt_in)
    /\ UNCHANGED <<tt_in, recentVars, schemaVars, srfVars, jobVars, fmtVars, aopVars, laterVars>>

----------------------------------------------------------------------------
(* Schema builder: get_variables *)

DataTypes ==
    {"real", "integer", "unsigned integer", "signed integer", "string",
     "uri", "dateTime"}

\* the pubFormat values of dateTime rows; other rows are published "asIs"
DateTimeFormats ==
    {"yyyy-MM-dd'T'HH:mm:ss'Z'(floor)", "yyyy-MM-dd'T'HH:mm:ss'Z'",
     "yyyy-MM-dd'T'HH:mm:ss'Z'(round)", "yyyy-MM-dd(floor)", "yyyy-MM-dd",
     "yyyy(floor)", "yyyy(round)", "yyyy", "yyyy-MM", "asIs"}

FieldNames == {"f1", "f2"}

VarRow(nm, dt, pf) == [fieldName |-> nm, dataType |-> dt, pubFormat |-> pf]

VariablesRows ==
    {VarRow(nm, dt, "asIs") : nm \in FieldNames, dt \in DataTypes \ {"dateTime"}}
    \cup {VarRow(nm, "dateTime", pf) : nm \in FieldNames, pf \in DateTimeFormats}

\* the type get_variables gives one row: the ifs of the loop body, in order
FieldType(r) ==
    LET t0 == "string"
        t1 == IF r.dataType = "real" THEN "float64" ELSE t0
        t2 == IF r.dataType \in {"integer", "unsigned integer", "signed integer"}
              THEN "int64" ELSE t1
        t3 == IF r.dataType \in {"string", "uri"} THEN "string" ELSE t2
    IN  IF r.dataType = "dateTime"
        THEN IF r.pubFormat \in {"yyyy-MM-dd'T'HH:mm:ss'Z'(floor)",
                                 "yyyy-MM-dd'T'HH:mm:ss'Z'",
                                 "yyyy-MM-dd'T'HH:mm:ss'Z'(round)"}
             THEN "timestamp[s, UTC]"
             ELSE IF r.pubFormat \in {"yyyy-MM-dd(floor)", "yyyy-MM-dd"}
             THEN "date64"
             ELSE IF r.pubFormat \in {"yyyy(floor)", "yyyy(round)"}
             THEN "int64"
             ELSE "string"
        ELSE t3

\* the schema: one field per row, appended in row order
get_variables(vrows) ==
    [i \in 1..Len(vrows) |->
        [name |-> vrows[i].fieldName, type |-> FieldType(vrows[i])]]

SchemaInit ==
    /\ gv_in \in UNION {[1..k -> VariablesRows] : k \in 1..MaxVarRows}
    /\ gv_out = <<>>
    /\ gv_pc = "call"

SchemaIdle ==
    /\ gv_in = <<>>
    /\ gv_out = <<>>
    /\ gv_pc = "idle"

CallGetVariables ==
    /\ gv_pc = "call"
    /\ gv_out' = get_variables(gv_in)
    /\ gv_pc' = "done"
    /\ UNCHANGED <<gv_in, recentVars, typesVars, srfVars, jobVars, fmtVars, aopVars, laterVars>>

----------------------------------------------------------------------------
(* Science review flags: remove_srf_dups *)

\* a row of the flags table: its index label, its flag id and its
\* lastUpdateDateTime
SrfIds == {7, 15}

SrfRow(idx, id, upd) == [idx |-> idx, srfID |-> id, upd |-> upd]

\* the orders in which list(set(...)) can list the members of S
Orderings(S) == {o \in [1..Cardinality(S) -> S] : Range(o) = S}

\* srfsubi = srftab[srftab.srfID==i]
srfsubi(srftab, i) == LET isI(r) == r.srfID = i IN SelectSeq(srftab, isI)

\* the label of the first row, whatever its lastUpdateDateTime
idx_first(sub) == sub[1].idx

\* srfsubi.idxmax()["lastUpdateDateTime"]: the label of the first row
\* holding the maximum
idxmax_upd(sub) ==
    LET m == SetMax({r.upd : r \in Range(sub)})
        first == CHOOSE k \in 1..Len(sub) :
                    sub[k].upd = m /\ \A j \in 1..(k - 1) : sub[j].upd # m
    IN  sub[first].idx

\* srfsubi.loc[indi], on a table whose labels are unique
loc(sub, label) == CHOOSE r \in Range(sub) : r.idx = label

\* remove_srf_dups with idset, the list of the set of flag ids, in the
\* order the set's iteration gives
remove_srf_dups(srftab, idset) ==
    [k \in 1..Len(idset) |->
        loc(srfsubi(srftab, idset[k]), idxmax_upd(srfsubi(srftab, idset[k])))]

\* srf_in: the flags table as stack_data_files_parallel hands it over, its
\* labels 0..n-1
SrfInit ==
    /\ \E n \in 1..MaxSrfRows :
         \E ids \in [1..n -> SrfIds], upds \in [1..n -> 1..MaxUpd] :
            srf_in = [k \in 1..n |-> SrfRow(k - 1, ids[k], upds[k])]
    /\ srf_out = <<>>
    /\ srf_out2 = <<>>
    /\ srf_pc = "call"

SrfIdle ==
    /\ srf_in = <<>>
    /\ srf_out = <<>>
    /\ srf_out2 = <<>>
    /\ srf_pc = "idle"

CallRemoveSrfDups ==
    /\ srf_pc = "call"
    /\ \E idset \in Orderings({r.srfID : r \in Range(srf_in)}) :
          srf_out' = remove_srf_dups(srf_in, idset)
    /\ srf_pc' = "once"
    /\ UNCHANGED <<srf_in, srf_out2, recentVars, typesVars, schemaVars, jobVars,
                   fmtVars, aopVars, laterVars>>

CallRemoveSrfDupsAgain ==
    /\ srf_pc = "once"
    /\ \E idset \in Orderings({r.srfID : r \in Range(srf_out)}) :
          srf_out2' = remove_srf_dups(srf_out, idset)
    /\ srf_pc' = "twice"
    /\ UNCHANGED <<srf_in, srf_out, recentVars, typesVars, schemaVars, jobVars,
                   fmtVars, aopVars, laterVars>>

----------------------------------------------------------------------------
(* get_recent_publication applied to files sharing one dedup key *)

\* one site's sensor_positions files: every stamp once, the latest stamp
\* also as a copy in a second folder, and a file without a stamp
RecentPool ==
    {File(1, "RELEASE-2024", "", "HARV", FALSE, "sensor_positions", FALSE, 0,
          dt, tm) : dt \in 1..MaxDate, tm \in 1..MaxTime}
    \cup {File(2, "RELEASE-2024", "", "HARV", FALSE, "sensor_positions",
               FALSE, 0, MaxDate, MaxTime),
          File(1, "RELEASE-2024", "", "HARV", FALSE, "sensor_positions",
               FALSE, 0, NoStamp, 0)}

RecentInit ==
    /\ rp_in \in DistinctSeqs(RecentPool, MaxRecent)
    /\ rp_out = <<>>
    /\ rp_pc = "call"

RecentIdle ==
    /\ rp_in = <<>>
    /\ rp_out = <<>>
    /\ rp_pc = "idle"

CallGetRecentPublication ==
    /\ rp_pc = "call"
    /\ IF get_recent_publication_raises(rp_in)
       THEN rp_pc' = "raised" /\ rp_out' = <<>>
       ELSE rp_pc' = "done" /\ rp_out' = get_recent_publication(rp_in)
    /\ UNCHANGED <<rp_in, typesVars, schemaVars, srfVars, jobVars, fmtVars, aopVars, laterVars>>
----------------------------------------------------------------------------
(* Table assembly: the body of the loop of stack_data_files_parallel *)

\* The columns the data files of a table carry.  tab_a is an observational
\* table with siteID and collectDate; tab_n an observational table with
\* siteID and none of the date columns sort_dat probes; tab_l a lab table
\* with neither; sensor_positions and science_review_flags have no siteID
\* column of their own.
DataCols(j) ==
    CASE j = "tab_a" -> {"siteID", "collectDate", "endDate"}
      [] j = "tab_n" -> {"siteID"}
      [] j = "science_review_flags" -> {"srfID", "lastUpdateDateTime"}
      [] OTHER -> {}

DateCols ==
    <<"collectDate", "endDate", "startDate", "date", "endDateTime",
      "startDateTime">>

\* the value row k of file f holds in a date column: collectDate falls
\* within the file's month, later rows first; endDate rises with k
DateValue(f, k, c) ==
    IF c = "collectDate" THEN f.ym * 10 + (f.n - k) ELSE f.ym * 10 + k

\* the rows of a data file as ingested: src and k stand for the row's own
\* cells, filename is the __filename column
FileRows(f, j) ==
    [k \in 1..f.n |->
        [src |-> f, k |-> k, filename |-> f,
         siteID |-> IF "siteID" \in DataCols(j) THEN f.site ELSE "",
         dates |-> [c \in DataCols(j) \cap Range(DateCols) |-> DateValue(f, k, c)],
         srfID |-> IF j = "science_review_flags" THEN f.srf[k][1] ELSE 0,
         upd |-> IF j = "science_review_flags" THEN f.srf[k][2] ELSE 0,
         idx |-> 0,
         domainID |-> "", horizontalPosition |-> "", verticalPosition |-> "",
         publicationDate |-> <<>>, release |-> ""]]

RECURSIVE Concat(_)
Concat(ss) == IF ss = <<>> THEN <<>> ELSE Head(ss) \o Concat(Tail(ss))

\* tabler.search(f) with tabler = [.]j[.]|[.]j_pub[.]
TablerSearch(j, f) == TableToken(f) = j \/ TableToken(f) = j \o "_pub"

tablepaths_of(fpaths, j) ==
    LET isJ(f) == TablerSearch(j, f) IN SelectSeq(fpaths, isJ)

\* find_lab_names: the second component of each base name
find_lab_names(flpths) == {SplitName(f)[2] : f \in Range(flpths)}

\* sr.search(f) with sr = [.][A-Z]{4}[.]: the site component of a site
\* file; a lab file has none, and .group(0) raises AttributeError
SiteSearch(f) == f.site
find_sites_raises(flpths) == \E f \in Range(flpths) : SiteSearch(f) = ""
find_sites(flpths) == {SiteSearch(f) : f \in Range(flpths)}

\* re.compile(k).search(f) for a lab name or a site code k, on the path
KeySearch(k, f) == k = f.lab \/ k = f.site

keypaths(paths, k) == LET hasK(f) == KeySearch(k, f) IN SelectSeq(paths, hasK)

\* labrecent / siterecent: get_recent_publication(...)[0] for each key, in
\* the order keys lists them
recent_raises(paths, keys) ==
    \E i \in 1..Len(keys) : get_recent_publication_raises(keypaths(paths, keys[i]))

recent_per_key(paths, keys) ==
    [i \in 1..Len(keys) |-> get_recent_publication(keypaths(paths, keys[i]))[1]]

\* the order of strings, for the site codes of the model
SiteRank(s) == CASE s = "" -> 0 [] s = "BART" -> 1 [] s = "HARV" -> 2 [] OTHER -> 3
PosRank(p) == CASE p = "" -> 0 [] p = "000" -> 1 [] p = "010" -> 2 [] OTHER -> 3

LexLess(a, b) ==
    \E i \in 1..Len(a) : a[i] < b[i] /\ \A m \in 1..(i - 1) : a[m] = b[m]

\* sort_values(by=..., inplace=True, ignore_index=True): rows ascending by
\* their keys, keys[i] the key of rows[i], labels renumbered; rows of equal
\* key stay in their order before the sort, one of the orders the sort may
\* leave them in
SortValues(rows, keys) ==
    LET n == Len(rows)
        pos(i) == 1 + Cardinality({m \in 1..n :
                        \/ LexLess(keys[m], keys[i])
                        \/ keys[m] = keys[i] /\ m < i})
    IN  [p \in 1..n |->
            [rows[CHOOSE i \in 1..n : pos(i) = p] EXCEPT !.idx = p - 1]]

\* a variant taking the last of the date columns present
datevar_last(pcols) ==
    IF \E i \in 1..Len(DateCols) : DateCols[i] \in pcols
    THEN DateCols[CHOOSE i \in 1..Len(DateCols) :
            DateCols[i] \in pcols
            /\ \A m \in (i + 1)..Len(DateCols) : DateCols[m] \notin pcols]
    ELSE "None"

\* datevar: the first of the date columns present
datevar_of(pcols) ==
    IF \E i \in 1..Len(DateCols) : DateCols[i] \in pcols
    THEN DateCols[CHOOSE i \in 1..Len(DateCols) :
            DateCols[i] \in pcols /\ \A m \in 1..(i - 1) : DateCols[m] \notin pcols]
    ELSE "None"

\* a variant that leaves the table as it is
keep_order(pdata, pcols) == pdata

\* the sort of lines 463-472, tried when the sort by site raised
sort_by_date_alone(pdata, pcols) ==
    LET datevar == datevar_of(pcols)
    IN  IF datevar # "None"
        THEN SortValues(pdata, [i \in 1..Len(pdata) |-> <<pdata[i].dates[datevar]>>])
        ELSE pdata                       \* by=[None] raises too: pass

\* a sort by a column the table does not have raises KeyError
sort_dat(pdata, pcols) ==
    LET datevar == datevar_of(pcols)
        dkey(r) == IF datevar = "None" THEN <<>> ELSE <<r.dates[datevar]>>
        siteKey(r) == <<SiteRank(r.siteID)>> \o dkey(r)
        posKey(r) == <<SiteRank(r.siteID), PosRank(r.horizontalPosition),
                       PosRank(r.verticalPosition)>> \o dkey(r)
        by(key(_)) == [i \in 1..Len(pdata) |-> key(pdata[i])]
    IN  IF "horizontalPosition" \notin pcols
        THEN IF "siteID" \in pcols
             THEN SortValues(pdata, by(siteKey))
             ELSE sort_by_date_alone(pdata, pcols)
        ELSE IF "siteID" \in pcols /\ "verticalPosition" \in pcols
             THEN SortValues(pdata, by(posKey))
             ELSE pdata                  \* except Exception: pass

\* the files the loop reads for table j: every matching file of a site-date
\* table, the most recent file of each lab or site otherwise; keys lists the
\* labs or sites in the order list(set(...)) gives
resolve_raises(paths, j, ttype, keys) ==
    \/ ttype = "site-all" /\ find_sites_raises(tablepaths_of(paths, j))
    \/ ttype \in {"lab", "site-all"} /\ recent_raises(tablepaths_of(paths, j), keys)

\* a resolution that keeps the most recent file per key under every policy
resolve_paths_recent(paths, j, ttype, keys) ==
    recent_per_key(tablepaths_of(paths, j), keys)

resolve_paths(paths, j, ttype, keys) ==
    IF ttype \in {"lab", "site-all"}
    THEN recent_per_key(tablepaths_of(paths, j), keys)
    ELSE tablepaths_of(paths, j)

KeysOf(paths, j, ttype) ==
    IF ttype = "lab" THEN find_lab_names(tablepaths_of(paths, j))
    ELSE IF ttype = "site-all" /\ ~find_sites_raises(tablepaths_of(paths, j))
    THEN find_sites(tablepaths_of(paths, j))
    ELSE {}

\* dataset.dataset(..., schema=None) and dat.head(num_rows=0) read the head
\* of the first file to infer the columns, outside any try: they raise when
\* the damage of an unreadable first file lies in its head, which the file
\* name does not tell; under a schema nothing is read at that point
inspect_outcomes(tpaths, schemaless) ==
    IF schemaless /\ Len(tpaths) > 0 /\ tpaths[1].parse = "bad"
    THEN {"ok", "raises"} ELSE {"ok"}

\* dat.to_table(columns=cols) under the typed or the inferred schema raises
\* when a file does not parse under it
first_ingest_raises(tpaths, schemaless) ==
    \/ \E f \in Range(tpaths) : f.parse = "bad"
    \/ ~schemaless /\ \E f \in Range(tpaths) : f.parse = "typed_bad"
    \/ schemaless /\ \E f, g \in Range(tpaths) :
            f.parse = "typed_bad" /\ g.parse = "ok"

\* an all-string ingestion that takes every file
string_ingest_never_raises(tpaths) == FALSE

\* dat.to_table(columns=cols) under the all-string schema
string_ingest_raises(tpaths) == \E f \in Range(tpaths) : f.parse = "bad"

\* dattab.to_pandas(): the rows of the files in the order of tablepaths,
\* labelled 0..n-1
to_pandas(tpaths, j) ==
    LET rows == Concat([i \in 1..Len(tpaths) |-> FileRows(tpaths[i], j)])
    IN  [i \in 1..Len(rows) |-> [rows[i] EXCEPT !.idx = i - 1]]

\* a variant that keeps the date of the stamp and drops its time
PubrSearchDate(f) == IF f.date = NoStamp THEN <<>> ELSE <<f.date, 0>>

\* pubr.search(os.path.basename(p)) with pubr = 20[0-9]{6}T[0-9]{6}Z
PubrSearch(f) == IF f.date = NoStamp THEN <<>> ELSE <<f.date, f.time>>
pubval_raises(pdat) == \E i \in 1..Len(pdat) : PubrSearch(pdat[i].filename) = <<>>

\* the release tag that follows the stamp of the folder in the path
RelSearch(f) == f.rel

\* the .DOM.SITE. and .HOR.VER. parts of the path
DomSearch(f) == "D01"
SiteIDSearch(f) == f.site
LocrSearch(f) == IF f.hv THEN <<"000", "010">> ELSE <<>>

\* the provenance columns, the sort and the table-specific steps
\* (lines 913-997); idset is the order of the flag ids for remove_srf_dups
assemble(pdat0, j, ttype, idset) ==
    LET p1 == [i \in 1..Len(pdat0) |->
                [pdat0[i] EXCEPT !.publicationDate = PubrSearch(pdat0[i].filename),
                                 !.release = RelSearch(pdat0[i].filename)]]
        isIS == "siteID" \notin DataCols(j) /\ ttype # "lab"
        p2 == IF isIS
              THEN [i \in 1..Len(p1) |->
                      [p1[i] EXCEPT !.domainID = DomSearch(p1[i].filename),
                                    !.siteID = SiteIDSearch(p1[i].filename)]]
              ELSE p1
        cols2 == DataCols(j) \cup (IF isIS THEN {"domainID", "siteID"} ELSE {})
        allpos == \A i \in 1..Len(p2) : LocrSearch(p2[i].filename) # <<>>
        p3 == IF isIS /\ j # "sensor_positions" /\ allpos
              THEN [i \in 1..Len(p2) |->
                      [p2[i] EXCEPT
                          !.horizontalPosition = LocrSearch(p2[i].filename)[1],
                          !.verticalPosition = LocrSearch(p2[i].filename)[2]]]
              ELSE p2
        cols3 == cols2 \cup (IF isIS /\ j # "sensor_positions" /\ allpos
                             THEN {"horizontalPosition", "verticalPosition"}
                             ELSE {})
        p4 == IF isIS /\ j = "sensor_positions" THEN p3 ELSE sort_dat(p3, cols3)
    IN  IF j = "science_review_flags" THEN remove_srf_dups(p4, idset) ELSE p4

\* the columns the loop adds to table j (lines 913-964): the publication
\* date and the release of every table; the domain and the site of a table
\* without siteID that is not a lab table; the positions when the table is
\* not sensor_positions and every file name has the position segment
provenance_cols(pdat0, j, ttype) ==
    LET isIS == "siteID" \notin DataCols(j) /\ ttype # "lab"
        allpos == \A i \in 1..Len(pdat0) : LocrSearch(pdat0[i].filename) # <<>>
    IN  {"publicationDate", "release"}
        \cup (IF isIS THEN {"domainID", "siteID"} ELSE {})
        \cup (IF isIS /\ j # "sensor_positions" /\ allpos
              THEN {"horizontalPosition", "verticalPosition"} ELSE {})

\* the rows table j is stacked to from the listing fpaths (lines 841-991),
\* when nothing raises
stack_rows(fpaths, j, ttype, keys, idset) ==
    assemble(to_pandas(resolve_paths(fpaths, j, ttype, keys), j), j, ttype, idset)

SrfOrders(pdat0, j) ==
    IF j = "science_review_flags"
    THEN Orderings({pdat0[i].srfID : i \in 1..Len(pdat0)})
    ELSE {<<>>}

\* the products of the model: one stacked from its tables alone, and one
\* that also comes with per-sample files
Products == {"DP1.10003.001", "DP1.20190.001"}

\* the products that come with per-sample files (the list of line 681), and
\* the name their stacked table gets (lines 563-585)
FrameProducts == {"DP1.20190.001"}
FrameName(d) == IF d = "DP1.20190.001" THEN "rea_conductivityRawData" ELSE "per_sample"

\* dpnum = dpid[4:9]
dpnum(d) ==
    CASE d = "DP1.10003.001" -> "10003"
      [] d = "DP1.20190.001" -> "20190"
      [] OTHER -> ""

\* the name a stacked table is filed under
OutName(j) ==
    IF j = "science_review_flags" \/ j = "sensor_positions"
    THEN j \o "_" \o dpnum(dpid) ELSE j

VarKey == "variables_" \o dpnum(dpid)

----------------------------------------------------------------------------
(* stack_data_files_parallel *)

\* a data file: a file name with its number of rows and how its cells parse
\* ("ok"; "typed_bad": not under the types of the variables file; "bad":
\* not even as strings), or a variables file with its rows
JobFile(f, n, parse, vrows) ==
    [dir |-> f.dir, rel |-> f.rel, lab |-> f.lab, site |-> f.site, hv |-> f.hv,
     table |-> f.table, pub |-> f.pub, ym |-> f.ym, date |-> f.date,
     time |-> f.time, n |-> n, parse |-> parse, vrows |-> vrows]

VRow(t, nm, pkg) == [table |-> t, fieldName |-> nm, downloadPkg |-> pkg]

SiteDateFile(t, site, ym, n, parse) ==
    JobFile(File(1, "RELEASE-2024", "", site, FALSE, t, FALSE, ym, 1, 1),
            n, parse, <<>>)

SiteAllFile(t, site, date, time, n) ==
    JobFile(File(1, "RELEASE-2024", "", site, FALSE, t, FALSE, 0, date, time),
            n, "ok", <<>>)

LabFile(t, lab, date, time, n) ==
    JobFile(File(1, "RELEASE-2024", lab, "", FALSE, t, FALSE, 0, date, time),
            n, "ok", <<>>)

\* the file f in a folder of another release
Released(f, rel) == [f EXCEPT !.rel = rel]

VariablesFile(date, time, vrows) ==
    JobFile(File(1, "RELEASE-2024", "", "HARV", FALSE, "variables", FALSE, 0,
                 date, time), 0, "ok", vrows)

\* an earlier variables file with rows for every table, and a later one
\* with none for tab_a and with tab_n under its _pub name
VarsAll ==
    VariablesFile(1, 1,
        <<VRow("tab_a", "siteID", "basic"), VRow("tab_a", "collectDate", "basic"),
          VRow("tab_n", "siteID", "basic"), VRow("tab_l", "analyte", "expanded")>>)
VarsLater ==
    VariablesFile(2, 1,
        <<VRow("tab_n_pub", "siteID", "basic"), VRow("tab_l", "analyte", "basic")>>)

\* the files a job can find: monthly files of two site-date tables, from
\* two releases and from provisional data; the
\* publications of sensor_positions for two sites, beside a data table
\* published both monthly and per site; the publications of a lab table for
\* two labs, one of them without a stamp, beside a monthly table
SiteDatePool ==
    {SiteDateFile("tab_a", "HARV", 1, 2, "ok"),
     Released(SiteDateFile("tab_a", "HARV", 2, 1, "ok"), "PROVISIONAL"),
     SiteDateFile("tab_a", "BART", 1, 1, "typed_bad"),
     SiteDateFile("tab_a", "BART", 2, 1, "bad"),
     SiteDateFile("tab_n", "HARV", 1, 1, "ok"),
     Released(SiteDateFile("tab_n", "HARV", 2, 1, "ok"), "RELEASE-2023"),
     VarsAll, VarsLater}

\* three publications T1 < T2 < T3 of one key, the first two on one day
PubStamps == {<<1, 1>>, <<1, 2>>, <<2, 1>>}

SiteAllPool ==
    {SiteAllFile("sensor_positions", "HARV", st[1], st[2], 1) : st \in PubStamps}
    \cup {SiteAllFile("sensor_positions", "BART", 1, 1, 1),
          SiteDateFile("tab_a", "HARV", 1, 1, "ok"),
          SiteAllFile("tab_a", "HARV", 1, 1, 1), VarsAll}

LabPool ==
    {LabFile("tab_l", "Lab_A", st[1], st[2], 1) : st \in PubStamps}
    \cup {LabFile("tab_l", "Lab_B", 1, 1, 1),
          LabFile("tab_l", "Lab_B", NoStamp, 0, 1),
          SiteDateFile("tab_a", "HARV", 1, 1, "ok"), VarsAll}

\* the per-sample files of a product that has them, beside a monthly table
FrameFile(site, ym, n, parse) ==
    JobFile(File(1, "RELEASE-2024", "", site, FALSE, "frame", FALSE, ym, 1, 1),
            n, parse, <<>>)

FramePool ==
    {FrameFile("HARV", 1, 1, "ok"), FrameFile("HARV", 2, 1, "typed_bad"),
     FrameFile("BART", 1, 1, "bad"),
     SiteDateFile("tab_a", "HARV", 1, 1, "ok"), VarsAll}

Scenarios == {SiteDatePool, SiteAllPool, LabPool, FramePool}

\* the products a listing can be of: per-sample files come with the
\* products that have them
ProductsOf(pool) ==
    IF pool = FramePool THEN FrameProducts ELSE Products \ FrameProducts

EmptyMap == [x \in {} |-> x]

\* before the calls of get_issue_log and get_citation; before the return
NoCalls == [issue |-> "none", prov |-> "none", rel |-> "none"]
NotReturned == [savepath |-> "", keys |-> <<>>, deleted |-> FALSE]

JobInit ==
    /\ \E pool \in Scenarios :
          /\ filepaths \in DistinctSeqs(pool, MaxFiles) \cup {<<>>}
          /\ dpid \in ProductsOf(pool)
    /\ package \in {"basic", "expanded"}
    /\ cite = NoCalls
    /\ returned = NotReturned
    /\ pc = "start"
    /\ table_types = EmptyMap
    /\ todo = {}
    /\ varfile = <<>>
    /\ vlist = EmptyMap
    /\ stacklist = EmptyMap
    /\ releases = {}
    /\ log = {}
    /\ exc = ""
    /\ readpaths = EmptyMap

JobIdle ==
    /\ filepaths = <<>>
    /\ package = ""
    /\ dpid = ""
    /\ cite = NoCalls
    /\ returned = NotReturned
    /\ pc = "idle"
    /\ table_types = EmptyMap
    /\ todo = {}
    /\ varfile = <<>>
    /\ vlist = EmptyMap
    /\ stacklist = EmptyMap
    /\ releases = {}
    /\ log = {}
    /\ exc = ""
    /\ readpaths = EmptyMap

otherVars == <<recentVars, typesVars, schemaVars, srfVars, fmtVars, aopVars, laterVars>>

PathHas(token) == \E f \in Range(filepaths) : f.table = token

Msg(m, j) == [msg |-> m, table |-> j]

\* table_types with the two forced entries (lines 727-731)
forced_types(tt) ==
    (IF PathHas("science_review_flags")
     THEN "science_review_flags" :> "site-date" ELSE EmptyMap)
    @@ (IF PathHas("sensor_positions")
        THEN "sensor_positions" :> "site-all" ELSE EmptyMap)
    @@ tt

\* an entry of the bundle
Entry(rows, typing, fields) == [rows |-> rows, typing |-> typing, fields |-> fields]

\* os.path.basename(f).startswith("NEON.")
StartsWithNEON(f) == f.table # "frame"

\* stack_frame_files, lines 548-560: to_table under the packaged schema
\* raises when a file does not parse under it, and the second to_table, under
\* the string schema and outside any try, raises when a file does not parse
\* at all
frame_typed_raises(framefiles) ==
    \E i \in 1..Len(framefiles) : framefiles[i].parse # "ok"
frame_string_raises(framefiles) ==
    \E i \in 1..Len(framefiles) : framefiles[i].parse = "bad"

\* stack_frame_files, lines 548-587: the files concatenated as they are read
stack_frame_files(framefiles, d) ==
    Entry(to_pandas(framefiles, FrameName(d)), "frame", {})

\* lines 662-732: list the files, stack the per-sample files of a product
\* that has them and keep the other files, leave when there is none, classify
\* the tables.  find_table_types returning None makes the forced assignments
\* (TypeError) or table_types.keys() (AttributeError) raise.
ClassifyTables ==
    /\ pc = "start"
    /\ LET frames == dpid \in FrameProducts
                        /\ \E f \in Range(filepaths) : ~StartsWithNEON(f)
           notNEON(f) == ~StartsWithNEON(f)
           framefiles == SelectSeq(filepaths, notNEON)
           fpaths == IF frames THEN SelectSeq(filepaths, StartsWithNEON)
                     ELSE filepaths
           has(token) == \E f \in Range(fpaths) : f.table = token
           log0 == IF frames /\ frame_typed_raises(framefiles)
                   THEN log \cup {Msg("Large file schema did not match", "")}
                   ELSE log
       IN  IF frames /\ frame_string_raises(framefiles)
           THEN /\ pc' = "raised"
                /\ exc' = "ArrowInvalid"
                /\ UNCHANGED <<filepaths, stacklist, table_types, todo, log>>
           ELSE
           /\ filepaths' = fpaths
           /\ stacklist' = (IF frames
                            THEN FrameName(dpid) :> stack_frame_files(framefiles, dpid)
                            ELSE stacklist)
           /\ IF Len(fpaths) = 0
              THEN /\ pc' = "none"
                   /\ log' = log0
                   /\ UNCHANGED <<table_types, todo, exc>>
              ELSE IF find_table_types_none(fpaths)
              THEN /\ pc' = "raised"
                   /\ exc' = (IF has("sensor_positions") \/ has("science_review_flags")
                              THEN "TypeError" ELSE "AttributeError")
                   /\ log' = log0 \cup {Msg("No data tables found", "")}
                   /\ UNCHANGED <<table_types, todo>>
              ELSE IF find_table_types_raises(fpaths)
              THEN /\ pc' = "raised"
                   /\ exc' = "ValueError"
                   /\ log' = log0
                   /\ UNCHANGED <<table_types, todo>>
              ELSE /\ pc' = "meta"
                   /\ table_types' = forced_types(find_table_types(fpaths))
                   /\ todo' = DOMAIN forced_types(find_table_types(fpaths))
                   /\ log' = log0
                   /\ UNCHANGED exc
    /\ UNCHANGED <<package, dpid, varfile, vlist, releases,
                   readpaths, cite, returned, otherVars>>

\* any(re.search('variables.20', path)): a stamped variables file
IsVariablesPath(f) == f.table = "variables" /\ f.date # NoStamp

SrfVariables == <<VRow("science_review_flags", "srfID", "basic")>>
SensorPositionsVariables == <<VRow("sensor_positions", "sensorLocationID", "basic")>>

RowsOfTable(rows, t) == LET isT(r) == r.table = t IN SelectSeq(rows, isT)
FieldNamesOf(rows) == [i \in 1..Len(rows) |-> rows[i].fieldName]

\* v after lines 736-760: the most recent variables file, with the rows of
\* the flags and the sensor positions tables added when it lacks them
read_variables ==
    LET varpath == get_recent_publication(SelectSeq(filepaths, IsVariablesPath))[1]
        v0 == varpath.vrows
        v1 == IF RowsOfTable(v0, "science_review_flags") = <<>>
                 /\ PathHas("science_review_flags")
              THEN v0 \o SrfVariables ELSE v0
    IN  IF PathHas("sensor_positions")
           /\ RowsOfTable(v1, "sensor_positions") = <<>>
        THEN v1 \o SensorPositionsVariables ELSE v1

\* vlist = {k: v for k, v in v.groupby("table")}
group_by_table(rows) ==
    [t \in {rows[i].table : i \in 1..Len(rows)} |-> FieldNamesOf(RowsOfTable(rows, t))]


\* lines 790-813: the most recent readme of the folder as a table, or none
\* when the folder has no readme or it cannot be read
readme_answers == {"none", "table"}

\* a variant that lists no table
format_readme_bare(readmetab, tables) == Entry(<<>>, "readme", {})

\* lines 590-632: the readme with the download-specific lines cut and the
\* names of the tables written in ("This data product contains up to
\* len(tables) data tables:"); the fields of the entry are the names listed
format_readme(readmetab, tables) == Entry(<<>>, "readme", tables)

\* lines 734-818: read the variables file and the readme into the bundle;
\* without a variables file, stacklist[f"variables_{dpnum}"] at line 818
\* raises KeyError
ReadMetadata ==
    /\ pc = "meta"
    /\ IF \E f \in Range(filepaths) : IsVariablesPath(f)
       THEN /\ varfile' = read_variables
            /\ vlist' = group_by_table(read_variables)
            /\ \E rd \in readme_answers :
                  stacklist' =
                      (IF rd = "table"
                       THEN ("readme_" \o dpnum(dpid))
                               :> format_readme(rd, DOMAIN table_types)
                       ELSE EmptyMap)
                      @@ (VarKey :> Entry(read_variables, "variables", {}))
                      @@ stacklist
            /\ pc' = "tables"
            /\ UNCHANGED exc
       ELSE /\ pc' = "raised"
            /\ exc' = "KeyError"
            /\ UNCHANGED <<varfile, vlist, stacklist>>
    /\ UNCHANGED <<filepaths, package, dpid, table_types, todo, releases, log,
                   readpaths, cite, returned, otherVars>>

\* sensor_positions_internal_variables, the fixed schema of the sensor
\* positions table
SensorPositionsInternal ==
    <<VRow("sensor_positions", "sensorLocationID", "basic"),
      VRow("sensor_positions", "name", "basic")>>

\* tablepkgvar: the variables rows of table j for the package (lines 822-833)
tablepkgvar(j) ==
    LET vt0 == RowsOfTable(varfile, j)
        vt1 == IF Len(vt0) = 0 THEN RowsOfTable(varfile, j \o "_pub") ELSE vt0
        vtab == IF j = "sensor_positions" THEN SensorPositionsInternal ELSE vt1
        isBasic(r) == r.downloadPkg = "basic"
    IN  IF package = "basic" THEN SelectSeq(vtab, isBasic) ELSE vtab

\* cast_table_neon after the all-string ingestion: each column of the
\* variables rows is cast on its own, and a column whose cast raises is left
\* as it was read; castok is the set of columns whose values cast
cast_table_neon(fields, castok) ==
    {<<c, IF c \in castok THEN "cast" ELSE "string">> : c \in fields}

\* the column types of a table ingested under its schema at the first attempt
schema_types(fields) == {<<c, "schema">> : c \in fields}

\* a schema built whether or not tablepkgvar has rows
tableschema_never_none(pkgvar) == FALSE

\* lines 834-839: tableschema is None when tablepkgvar has no rows
tableschema_is_none(pkgvar) == Len(pkgvar) = 0

\* added_fields.csv: the rows of the provenance columns
AddedFieldsIS == <<"domainID", "siteID", "horizontalPosition", "verticalPosition">>
AddedFieldsAll == <<"publicationDate", "release">>

\* a variant that adds the two fields to the rows of every table
add_fields_every(vl, j, ttype) ==
    [t \in DOMAIN vl |-> vl[t] \o AddedFieldsAll]

\* vlist after lines 930-976; vlist[j] raises KeyError, which is passed
\* over, when the variables file has no rows under the name j
add_fields(vl, j, ttype) ==
    LET vl1 == IF j \in DOMAIN vl
               THEN [vl EXCEPT ![j] = vl[j] \o AddedFieldsAll] ELSE vl
    IN  IF "siteID" \notin DataCols(j) /\ ttype # "lab"
           /\ j # "sensor_positions" /\ j \in DOMAIN vl1
        THEN [vl1 EXCEPT ![j] = AddedFieldsIS \o vl1[j]] ELSE vl1

\* the tables come in the order of table_types.keys(): the data tables in
\* the order of list(set(td)), then the forced entries
MayStackNext(j) ==
    /\ j \in todo
    /\ j = "sensor_positions" =>
          todo \subseteq {"sensor_positions", "science_review_flags"}
    /\ j = "science_review_flags" => todo = {"science_review_flags"}

\* lines 819-997: one pass of the loop over the tables
StackTable(j) ==
    /\ pc = "tables"
    /\ MayStackNext(j)
    /\ LET ttype == table_types[j]
           pkgvar == tablepkgvar(j)
           schemaless == tableschema_is_none(pkgvar)
           log1 == IF schemaless
                   THEN log \cup {Msg("Variables file not found", j)} ELSE log
       IN  \E keys \in Orderings(KeysOf(filepaths, j, ttype)) :
           IF resolve_raises(filepaths, j, ttype, keys)
           THEN /\ pc' = "raised"
                /\ exc' = (IF ttype = "site-all"
                              /\ find_sites_raises(tablepaths_of(filepaths, j))
                           THEN "AttributeError" ELSE "ValueError")
                /\ log' = log1
                /\ UNCHANGED <<todo, vlist, stacklist, releases, readpaths>>
           ELSE
           LET tpaths == resolve_paths(filepaths, j, ttype, keys)
               pdat0 == to_pandas(tpaths, j)
               retried == first_ingest_raises(tpaths, schemaless)
           IN  \E inspect \in inspect_outcomes(tpaths, schemaless) :
               IF inspect = "raises"
               THEN /\ pc' = "raised"
                    /\ exc' = "ArrowInvalid"
                    /\ log' = log1
                    /\ readpaths' = (j :> tpaths) @@ readpaths
                    /\ UNCHANGED <<todo, vlist, stacklist, releases>>
               ELSE IF retried /\ string_ingest_raises(tpaths)
               THEN /\ log' = log1 \cup {Msg("Failed to stack table", j)}
                    /\ todo' = todo \ {j}
                    /\ readpaths' = (j :> tpaths) @@ readpaths
                    /\ UNCHANGED <<pc, exc, vlist, stacklist, releases>>
               ELSE IF pubval_raises(pdat0)
               THEN /\ pc' = "raised"
                    /\ exc' = "AttributeError"
                    /\ log' = (IF retried
                               THEN log1 \cup {Msg("schema did not match data", j)}
                               ELSE log1)
                    /\ readpaths' = (j :> tpaths) @@ readpaths
                    /\ UNCHANGED <<todo, vlist, stacklist, releases>>
               ELSE \E idset \in SrfOrders(pdat0, j),
                       castok \in (IF retried
                                   THEN SUBSET Range(FieldNamesOf(pkgvar))
                                   ELSE {{}}) :
                    /\ log' = (IF retried
                               THEN log1 \cup {Msg("schema did not match data", j)}
                               ELSE log1)
                    /\ releases' = releases
                            \cup {RelSearch(pdat0[i].filename) : i \in 1..Len(pdat0)}
                    /\ vlist' = add_fields(vlist, j, ttype)
                    /\ stacklist' =
                          (OutName(j) :>
                              Entry(stack_rows(filepaths, j, ttype, keys, idset),
                                    IF retried THEN "string"
                                    ELSE IF schemaless THEN "inferred"
                                    ELSE "schema",
                                    IF retried
                                    THEN cast_table_neon(
                                            Range(FieldNamesOf(pkgvar)), castok)
                                    ELSE schema_types(
                                            Range(FieldNamesOf(pkgvar)))))
                          @@ stacklist
                    /\ todo' = todo \ {j}
                    /\ readpaths' = (j :> tpaths) @@ readpaths
                    /\ UNCHANGED <<pc, exc>>
    /\ UNCHANGED <<filepaths, package, dpid, table_types, varfile, cite,
                   returned, otherVars>>

ReleaseTags == {"RELEASE-2024", "RELEASE-2023"}

\* a variant that counts the provisional tag as a release
release_tags_all(rels) == rels \cap (ReleaseTags \cup {"PROVISIONAL"})

\* rs: the RELEASE-20YY tags among the releases stacked (lines 1012-1020)
release_tags(rels) == rels \cap ReleaseTags

\* what the services may answer: get_issue_log a table or an exception;
\* get_citation a text, None when the product has no data in the release,
\* or an exception; "none" when the call is not made
issue_answers == {"table", "raises"}
prov_answers(rels) ==
    IF "PROVISIONAL" \in rels THEN {"text", "raises"} ELSE {"none"}
rel_answers(rels) ==
    IF Cardinality(release_tags(rels)) = 1
    THEN {"text", "None", "raises"} ELSE {"none"}

\* lines 999-1028: the final variables table, the issue log and the
\* citations; an exception of get_issue_log or get_citation is passed over
Finalize ==
    /\ pc = "tables"
    /\ todo = {}
    /\ \E ia \in issue_answers, pa \in prov_answers(releases),
          ra \in rel_answers(releases) :
        LET vars_final ==
                VarKey :> Entry(<<>>, "variables",
                    UNION {{<<t, vlist[t][i]>> : i \in 1..Len(vlist[t])} :
                                t \in DOMAIN vlist})
            issue == IF ia = "table"
                     THEN ("issueLog_" \o dpnum(dpid)) :> Entry(<<>>, "issueLog", {})
                     ELSE EmptyMap
            rs == release_tags(releases)
            prov == IF pa = "text"
                    THEN ("citation_" \o dpnum(dpid) \o "_PROVISIONAL")
                            :> Entry(<<>>, "citation", {})
                    ELSE EmptyMap
            rel == IF ra \in {"text", "None"}
                   THEN ("citation_" \o dpnum(dpid) \o "_" \o (CHOOSE r \in rs : TRUE))
                            :> Entry(<<>>, IF ra = "text" THEN "citation" ELSE "None",
                                     {})
                   ELSE EmptyMap
        IN  /\ stacklist' = rel @@ prov @@ issue @@ vars_final @@ stacklist
            /\ log' = (IF Cardinality(rs) > 1
                       THEN log \cup {Msg("Multiple data releases", "")} ELSE log)
            /\ cite' = [issue |-> ia, prov |-> pa, rel |-> ra]
    /\ pc' = "done"
    /\ UNCHANGED <<filepaths, package, dpid, table_types, todo, varfile, vlist,
                   releases, exc, readpaths, returned, otherVars>>

\* the order of str: by code point, a proper prefix first
RECURSIVE str_lt(_, _)
str_lt(a, b) ==
    IF b = <<>> THEN FALSE
    ELSE IF a = <<>> THEN TRUE
    ELSE IF Head(a) # Head(b) THEN Head(a) < Head(b)
    ELSE str_lt(Tail(a), Tail(b))

\* a variant that lists the keys last to first
RECURSIVE keys_descending(_)
keys_descending(ks) ==
    IF ks = {} THEN <<>>
    ELSE LET m == CHOOSE x \in ks :
                    \A y \in ks \ {x} : str_lt(ord_of(y), ord_of(x))
         IN  <<m>> \o keys_descending(ks \ {m})

\* mk = list(stackedlist.keys()); mk.sort()  (lines 1191-1192)
RECURSIVE sort_keys(_)
sort_keys(ks) ==
    IF ks = {} THEN <<>>
    ELSE LET m == CHOOSE x \in ks :
                    \A y \in ks \ {x} : str_lt(ord_of(x), ord_of(y))
         IN  <<m>> \o sort_keys(ks \ {m})

\* what the caller asks for: the bundle itself, or files under a folder
SavePaths == {"envt", "folder"}

\* savepath and save_unzipped_files, as the calls of the model give them:
\* the unzipped files are kept or deleted when the bundle is asked for, and
\* deleted, the default, when it is written to a folder
StackByTableArgs ==
    {a \in SavePaths \X BOOLEAN : a[1] = "folder" => ~a[2]}

\* stack_by_table, lines 1166-1230: stack_data_files_parallel has returned;
\* unless save_unzipped_files is set the input files are deleted (lines
\* 1171-1188), whatever was returned, and then
\* the keys are sorted, and the sorted mapping is returned for savepath
\* "envt" and written out otherwise.  When stack_data_files_parallel
\* returned None, stackedlist.keys() at line 1191 raises AttributeError.
ReturnBundle ==
    /\ pc \in {"done", "none"}
    /\ \E args \in StackByTableArgs :
          LET savepath == args[1]
              save_unzipped_files == args[2]
          IN
          IF pc = "none"
          THEN /\ pc' = "raised"
               /\ exc' = "AttributeError"
               /\ returned' = [returned EXCEPT !.deleted = ~save_unzipped_files]
          ELSE /\ returned' = [savepath |-> savepath,
                                keys |-> IF savepath = "envt"
                                         THEN sort_keys(DOMAIN stacklist) ELSE <<>>,
                                deleted |-> ~save_unzipped_files]
               /\ pc' = "returned"
               /\ UNCHANGED exc
    /\ UNCHANGED <<filepaths, package, dpid, table_types, todo, varfile, vlist,
                   stacklist, releases, log, readpaths, cite, otherVars>>

----------------------------------------------------------------------------
(* AOP downloads: by_file_aop, by_tile_aop *)

\* a data product identifier DP<lvl>.<num>.00<rev>; rev 0 stands for an
\* identifier cut short before its revision, such as DP1.30001
AopId(lvl, num, rev) == [lvl |-> lvl, num |-> num, rev |-> rev]

\* valid_aop_dpids
valid_aop_dpids ==
    {AopId(1, n, 1) : n \in {30001, 30003, 30010, 30006, 30008}}
    \cup {AopId(1, 30006, 2)}
    \cup {AopId(2, n, r) : n \in {30011, 30012, 30014, 30019, 30026}, r \in {1, 2}}
    \cup {AopId(3, n, 1) : n \in {30015, 30024, 30025, 30010}}
    \cup {AopId(3, n, r) :
            n \in {30006, 30011, 30012, 30014, 30019, 30026}, r \in {1, 2}}

\* valid_aop_l3_dpids: those that start with DP3
valid_aop_l3_dpids == {d \in valid_aop_dpids : d.lvl = 3}

suspended_aop_dpids ==
    {AopId(l, n, 1) : l \in {2, 3}, n \in {30018, 30020, 30022, 30016}}

\* validate_dpid: the message of the ValueError, "" when the identifier
\* matches DP[1-4]{1}.[0-9]{5}.00[1-2]{1}
validate_dpid(d) ==
    IF d.lvl \in 1..4 /\ d.num \in 0..99999 /\ d.rev \in 1..2
    THEN "" ELSE "not a properly formatted data product ID"

\* validate_aop_dpid: the pattern DP[1-3]{1}.300[0-2]{1}[0-9]{1}.00[1-2]{1},
\* then the suspended products, then the list of the valid ones
validate_aop_dpid(d) ==
    IF ~(d.lvl \in 1..3 /\ d.num \in 30000..30029 /\ d.rev \in 1..2)
    THEN "not a valid AOP data product ID: format"
    ELSE IF d \in suspended_aop_dpids THEN "has been suspended"
    ELSE IF d \notin valid_aop_dpids
    THEN "not a valid AOP data product ID: list"
    ELSE ""

\* validate_aop_l3_dpid: startswith('DP3'), then the list of the valid ones
validate_aop_l3_dpid(d) ==
    IF d.lvl # 3 THEN "not a valid Level 3 AOP data product ID: level"
    ELSE IF d \notin valid_aop_l3_dpids
    THEN "not a valid Level 3 AOP data product ID: list"
    ELSE ""

\* the field spectra product, DP1.30012.001
FieldSpectra == AopId(1, 30012, 1)

check_field_spectra_dpid(d) ==
    IF d = FieldSpectra THEN "is the Field spectral data product" ELSE ""

\* site.upper(), for the sites of the model
site_upper(site) == IF site = "mcra" THEN "MCRA" ELSE site

\* validate_site_format: fullmatch of [A-Z]{4}
validate_site_format(site) ==
    IF site \in {"MCRA", "ABCD"} THEN "" ELSE "invalid site format"

\* validate_neon_site, with the site codes of the packaged list that the
\* model uses
validate_neon_site(site) ==
    IF site \in {"MCRA", "HARV", "BART", "CHEQ"} THEN ""
    ELSE "not a valid NEON site code"

\* validate_year: fullmatch of 20[1-9][0-9] on str(year)
validate_year(year) ==
    IF year \in 2010..2099 THEN "" ELSE "invalid year"

AopFunctions == {"by_file_aop", "by_tile_aop"}

\* the identifiers, sites and years the functions are called with
AopDpids ==
    {AopId(1, 30001, 0), FieldSpectra, AopId(3, 30015, 1), AopId(1, 30003, 1),
     AopId(2, 30018, 1), AopId(1, 10003, 1), AopId(3, 30021, 1),
     AopId(3, 30012, 1)}
AopSites == {"MCRA", "mcra", "ABCD", "MC"}
AopYears == {2021, 2009, 21}

\* the numbers of eastings and of northings left once the values that are
\* not numbers are dropped
MaxCoords == 2

AopInit ==
    /\ aop_fn \in AopFunctions
    /\ aop_in \in [dpid : AopDpids, site : AopSites, year : AopYears,
                   easting : 1..MaxCoords, northing : 1..MaxCoords]
    /\ aop_fn = "by_file_aop" => aop_in.easting = 1 /\ aop_in.northing = 1
    /\ aop_pc = "validate_dpid"
    /\ aop_exc = ""
    /\ aop_calls = 0

AopIdle ==
    /\ aop_fn = ""
    /\ aop_in = <<>>
    /\ aop_pc = "idle"
    /\ aop_exc = ""
    /\ aop_calls = 0

\* the outcome of one check of the call: raise with the message msg, or go
\* on to next
AopCheck(msg, next) ==
    /\ IF msg # ""
       THEN aop_pc' = "raised" /\ aop_exc' = msg
       ELSE aop_pc' = next /\ UNCHANGED aop_exc
    /\ UNCHANGED <<aop_fn, aop_in, aop_calls, recentVars, typesVars, schemaVars,
                   srfVars, jobVars, fmtVars, laterVars>>

\* lines 725-726 and 950-951
ValidateDpid ==
    /\ aop_pc = "validate_dpid"
    /\ AopCheck(validate_dpid(aop_in.dpid), "validate_aop_dpid")

\* lines 728-729: by_file_aop checks the identifier against the AOP products
ValidateAopDpid ==
    /\ aop_pc = "validate_aop_dpid"
    /\ aop_fn = "by_file_aop"
    /\ AopCheck(validate_aop_dpid(aop_in.dpid), "check_field_spectra_dpid")

\* lines 953-954: by_tile_aop checks it against the Level 3 products
ValidateAopL3Dpid ==
    /\ aop_pc = "validate_aop_dpid"
    /\ aop_fn = "by_tile_aop"
    /\ AopCheck(validate_aop_l3_dpid(aop_in.dpid), "check_field_spectra_dpid")

\* lines 731-732 and 956-957
CheckFieldSpectraDpid ==
    /\ aop_pc = "check_field_spectra_dpid"
    /\ AopCheck(check_field_spectra_dpid(aop_in.dpid), "validate_site_format")

\* lines 734-736 and 959-961
ValidateSiteFormat ==
    /\ aop_pc = "validate_site_format"
    /\ AopCheck(validate_site_format(site_upper(aop_in.site)),
                "validate_neon_site")

\* lines 738-739 and 963-964
ValidateNeonSite ==
    /\ aop_pc = "validate_neon_site"
    /\ AopCheck(validate_neon_site(site_upper(aop_in.site)), "validate_year")

\* lines 741-743 and 966-968
ValidateYear ==
    /\ aop_pc = "validate_year"
    /\ AopCheck(validate_year(aop_in.year),
                IF aop_fn = "by_tile_aop" THEN "coordinates" ELSE "request")

\* lines 970-1002: by_tile_aop returns when the eastings and the northings
\* differ in number
PairCoordinates ==
    /\ aop_pc = "coordinates"
    /\ aop_pc' = (IF aop_in.easting # aop_in.northing THEN "returned" ELSE "request")
    /\ UNCHANGED <<aop_fn, aop_in, aop_exc, aop_calls, recentVars, typesVars,
                   schemaVars, srfVars, jobVars, fmtVars, laterVars>>

\* lines 750-756 and 1009-1015: the first request to the API, for the
\* product; without a response the function returns, with one it goes on to
\* list and download the files
RequestProduct ==
    /\ aop_pc = "request"
    /\ aop_calls' = aop_calls + 1
    /\ \E response \in {"None", "ok"} :
          aop_pc' = (IF response = "None" THEN "returned" ELSE "listing")
    /\ UNCHANGED <<aop_fn, aop_in, aop_exc, recentVars, typesVars, schemaVars,
                   srfVars, jobVars, fmtVars, laterVars>>

----------------------------------------------------------------------------
(* table_type_formats on the components of any file name *)

\* components of a file name: a word, a year and month, a year and month
\* inside other text, a year with a one-digit month, and a publication stamp
FormatTokens == {"csv", "2021-05", "x2021-06y", "2021-5", "20210501T000000Z"}

MaxComponents == 7

FmtInit ==
    /\ fmt_in \in UNION {[1..n -> FormatTokens] : n \in 0..MaxComponents}
    /\ fmt_out = ""
    /\ fmt_pc = "call"

FmtIdle ==
    /\ fmt_in = <<>>
    /\ fmt_out = ""
    /\ fmt_pc = "idle"

CallTableTypeFormats ==
    /\ fmt_pc = "call"
    /\ fmt_out' = table_type_formats(fmt_in)
    /\ fmt_pc' = "done"
    /\ UNCHANGED <<fmt_in, recentVars, typesVars, schemaVars, srfVars, jobVars,
                   aopVars, laterVars>>

----------------------------------------------------------------------------
(* Specifications *)

InitRecent ==
    RecentInit /\ TypesIdle /\ SchemaIdle /\ SrfIdle /\ JobIdle /\ FmtIdle /\ AopIdle
    /\ LaterIdle
NextRecent == CallGetRecentPublication
SpecRecent == InitRecent /\ [][NextRecent]_vars

InitTypes ==
    TypesInit /\ RecentIdle /\ SchemaIdle /\ SrfIdle /\ JobIdle /\ FmtIdle /\ AopIdle
    /\ LaterIdle
NextTypes == CallFindTableTypes
SpecTypes == InitTypes /\ [][NextTypes]_vars

InitSchema ==
    SchemaInit /\ RecentIdle /\ TypesIdle /\ SrfIdle /\ JobIdle /\ FmtIdle /\ AopIdle
    /\ LaterIdle
NextSchema == CallGetVariables
SpecSchema == InitSchema /\ [][NextSchema]_vars

InitSrf ==
    SrfInit /\ RecentIdle /\ TypesIdle /\ SchemaIdle /\ JobIdle /\ FmtIdle /\ AopIdle
    /\ LaterIdle
NextSrf == CallRemoveSrfDups \/ CallRemoveSrfDupsAgain
SpecSrf == InitSrf /\ [][NextSrf]_vars

AllTables == DataTables \cup {"sensor_positions", "science_review_flags"}

Init ==
    JobInit /\ RecentIdle /\ TypesIdle /\ SchemaIdle /\ SrfIdle /\ FmtIdle /\ AopIdle
    /\ LaterIdle
Next ==
    \/ ClassifyTables
    \/ ReadMetadata
    \/ \E j \in AllTables : StackTable(j)
    \/ Finalize
    \/ ReturnBundle
Spec == Init /\ [][Next]_vars

InitAop ==
    AopInit /\ RecentIdle /\ TypesIdle /\ SchemaIdle /\ SrfIdle /\ JobIdle /\ FmtIdle
    /\ LaterIdle
NextAop ==
    \/ ValidateDpid
    \/ ValidateAopDpid
    \/ ValidateAopL3Dpid
    \/ CheckFieldSpectraDpid
    \/ ValidateSiteFormat
    \/ ValidateNeonSite
    \/ ValidateYear
    \/ PairCoordinates
    \/ RequestProduct
SpecAop == InitAop /\ [][NextAop]_vars

InitFormats ==
    FmtInit /\ RecentIdle /\ TypesIdle /\ SchemaIdle /\ SrfIdle /\ JobIdle /\ AopIdle
    /\ LaterIdle
NextFormats == CallTableTypeFormats
SpecFormats == InitFormats /\ [][NextFormats]_vars

----------------------------------------------------------------------------
(* sort_dat on any small table *)

\* a row of the table: k names the row, a and b are the two dates its date
\* columns hold, alternating along DateCols
SortRow(k, site, hor, ver, a, b) ==
    [k |-> k, idx |-> 0, siteID |-> site, horizontalPosition |-> hor,
     verticalPosition |-> ver,
     dates |-> [c \in Range(DateCols) |->
                  IF c \in {"collectDate", "startDate", "endDateTime"}
                  THEN a ELSE b]]

SortRows ==
    {SortRow(0, "HARV", "000", "010", 2, 1),
     SortRow(1, "BART", "010", "000", 1, 2),
     SortRow(2, "BART", "000", "010", 2, 2),
     SortRow(3, "HARV", "000", "000", 1, 1)}

\* the columns a table may have: any of the location columns, and at most
\* two of the date columns
SortColumnSets ==
    {lc \cup dc : lc \in SUBSET {"siteID", "horizontalPosition", "verticalPosition"},
                   dc \in {d \in SUBSET Range(DateCols) : Cardinality(d) <= 2}}

SortInit ==
    /\ \E rs \in SUBSET SortRows, cols \in SortColumnSets :
          \E o \in Orderings(rs) :
             sd_in = [rows |-> [i \in 1..Len(o) |-> [o[i] EXCEPT !.idx = i - 1]],
                      cols |-> cols]
    /\ sd_out = <<>>
    /\ sd_pc = "call"

earlierVars ==
    <<recentVars, typesVars, schemaVars, srfVars, jobVars, fmtVars, aopVars>>

EarlierIdle ==
    /\ RecentIdle /\ TypesIdle /\ SchemaIdle /\ SrfIdle /\ JobIdle /\ FmtIdle
    /\ AopIdle

CallSortDat ==
    /\ sd_pc = "call"
    /\ sd_out' = sort_dat(sd_in.rows, sd_in.cols)
    /\ sd_pc' = "done"
    /\ UNCHANGED <<sd_in, earlierVars, alignVars, apiVars, dlVars, tileVars>>

InitSort == SortInit /\ EarlierIdle /\ AlignIdle /\ ApiIdle /\ DlIdle /\ TileIdle
NextSort == CallSortDat
SpecSort == InitSort /\ [][NextSort]_vars

----------------------------------------------------------------------------
(* align_sp_cols on any small sensor positions table *)

\* a table is its set of columns and its rows, each row a function from the
\* columns to values, "" the null value

\* oldcols: the legacy column names and the current name of each
oldcols ==
    <<<<"name", "sensorLocationID">>,
      <<"description", "sensorLocationDescription">>,
      <<"start", "positionStartDateTime">>,
      <<"end", "positionEndDateTime">>,
      <<"referenceName", "referenceLocationID">>,
      <<"referenceDescription", "referenceLocationIDDescription">>,
      <<"referenceStart", "referenceLocationIDStartDateTime">>,
      <<"referenceEnd", "referenceLocationIDEndDateTime">>,
      <<"referenceLatitude", "locationReferenceLatitude">>,
      <<"referenceLongitude", "locationReferenceLongitude">>,
      <<"referenceElevation", "locationReferenceElevation">>>>

\* a variant in which the legacy value wins
fill_over(cur, leg) == IF leg # "" THEN leg ELSE cur

\* Series.fillna on one row: the value of the current column, and the
\* legacy value where that is null
fillna(cur, leg) == IF cur = "" THEN leg ELSE cur

\* sptab.drop(columns=k)
drop_column(t, k) ==
    [t EXCEPT !.cols = t.cols \ {k},
              !.rows = [i \in 1..Len(t.rows) |->
                           [c \in t.cols \ {k} |-> t.rows[i][c]]]]

\* one pass of the loop of lines 415-420 for the pair oldcols[n]; sptab[k]
\* raises KeyError when the table has no column k
align_pair(t, n) ==
    LET k == oldcols[n][1]
        cur == oldcols[n][2]
    IN  IF t.raised \/ k \notin t.cols THEN [t EXCEPT !.raised = TRUE]
        ELSE IF \A i \in 1..Len(t.rows) : t.rows[i][k] = "" THEN drop_column(t, k)
        ELSE IF cur \notin t.cols THEN [t EXCEPT !.raised = TRUE]
        ELSE drop_column(
                [t EXCEPT !.rows = [i \in 1..Len(t.rows) |->
                    [c \in t.cols |->
                        IF c = cur THEN fillna(t.rows[i][cur], t.rows[i][k])
                        ELSE t.rows[i][c]]]], k)

RECURSIVE align_pairs(_, _)
align_pairs(t, n) == IF n = 0 THEN t ELSE align_pair(align_pairs(t, n - 1), n)

align_sp_cols(sptab) ==
    align_pairs([cols |-> sptab.cols, rows |-> sptab.rows, raised |-> FALSE],
                Len(oldcols))

\* the columns of the fixed schema of the sensor positions table
SpColumns == {oldcols[n][m] : n \in 1..Len(oldcols), m \in 1..2}

\* a row: the values of two legacy/current pairs, every other column null
SpRow(nm, sid, st, pst) ==
    [c \in SpColumns |->
        CASE c = "name" -> nm
          [] c = "sensorLocationID" -> sid
          [] c = "start" -> st
          [] c = "positionStartDateTime" -> pst
          [] OTHER -> ""]

SpRows ==
    {SpRow(nm, sid, st, pst) : nm \in {"", "CFGLOC1", "CFGLOC2"},
                               sid \in {"", "CFGLOC1", "CFGLOC3"},
                               st \in {"", "2010"}, pst \in {"", "2012"}}

\* tables of no, one or two rows; the table has every column of the schema,
\* or lacks one
SpTables ==
    LET seqs == {<<>>} \cup {<<r>> : r \in SpRows}
                \cup {<<r1, r2>> : r1 \in SpRows, r2 \in SpRows}
    IN  {[cols |-> SpColumns \ gone,
          rows |-> [i \in 1..Len(rs) |-> [c \in SpColumns \ gone |-> rs[i][c]]]] :
            rs \in seqs,
            gone \in {{}, {"name"}, {"sensorLocationID"}, {"positionStartDateTime"}}}

AlignInit ==
    /\ sp_in \in SpTables
    /\ sp_out = <<>>
    /\ sp_pc = "call"

CallAlignSpCols ==
    /\ sp_pc = "call"
    /\ LET res == align_sp_cols(sp_in)
       IN  IF res.raised
           THEN sp_pc' = "raised" /\ sp_out' = <<>>
           ELSE sp_pc' = "done" /\ sp_out' = [cols |-> res.cols, rows |-> res.rows]
    /\ UNCHANGED <<sp_in, earlierVars, sortVars, apiVars, dlVars, tileVars>>

InitAlign == AlignInit /\ EarlierIdle /\ SortIdle /\ ApiIdle /\ DlIdle /\ TileIdle
NextAlign == CallAlignSpCols
SpecAlign == InitAlign /\ [][NextAlign]_vars

----------------------------------------------------------------------------
(* get_api (helper_mods/api_helpers.py) *)

\* the bound of the loop: while (j <= 5)
MaxAttempts == 5

\* what the server may answer to a request: status 200 without the rate
\* limit headers, status 200 with requests remaining, status 200 with none
\* remaining, another status, or no answer (requests.get raises)
ApiAnswers == {"ok", "ok_remaining", "limit_reached", "status_404", "exception"}

IsResponse(a) == a \in {"ok", "ok_remaining", "limit_reached", "status_404"}
StatusCode200(a) == a \in {"ok", "ok_remaining", "limit_reached"}
RateLimitReached(a) == a = "limit_reached"

\* api_srv: the answer to the connection check and the answers to the
\* requests for api_url, in the order they are sent
ApiInit ==
    /\ api_srv \in [check : {"ok", "status_404", "exception"},
                    answers : [1..MaxAttempts -> ApiAnswers]]
    /\ api_j = 0
    /\ api_reqs = 0
    /\ api_slept = 0
    /\ api_ret = ""
    /\ api_pc = "connect"

\* lines 52-62: the request to the data portal; any failure is raised as
\* ConnectionError
ApiCheckConnection ==
    /\ api_pc = "connect"
    /\ IF api_srv.check = "ok"
       THEN api_pc' = "loop" /\ api_j' = 1
       ELSE api_pc' = "raised" /\ api_j' = api_j
    /\ UNCHANGED <<api_srv, api_reqs, api_slept, api_ret, earlierVars, sortVars,
                   alignVars, dlVars, tileVars>>

\* lines 68-121: one pass of the loop; return response at the end of the try
\* block, and return None in the except clause, end the call in every pass
ApiAttempt ==
    /\ api_pc = "loop"
    /\ api_j <= MaxAttempts
    /\ LET response == api_srv.answers[api_reqs + 1]
       IN  /\ api_reqs' = api_reqs + 1
           /\ IF StatusCode200(response)
              THEN /\ api_j' = (IF RateLimitReached(response)
                                THEN api_j + 1 ELSE api_j + 5)
                   /\ api_slept' = (IF RateLimitReached(response)
                                    THEN api_slept + 1 ELSE api_slept)
                   /\ api_ret' = response
              ELSE /\ api_ret' = "None"
                   /\ UNCHANGED <<api_j, api_slept>>
    /\ api_pc' = "returned"
    /\ UNCHANGED <<api_srv, earlierVars, sortVars, alignVars, dlVars, tileVars>>

InitApi == ApiInit /\ EarlierIdle /\ SortIdle /\ AlignIdle /\ DlIdle /\ TileIdle
NextApi == ApiCheckConnection \/ ApiAttempt
SpecApi == InitApi /\ [][NextApi]_vars

----------------------------------------------------------------------------
(* download_urls (helper_mods/api_helpers.py) *)

\* the bound of the inner loop: while j<3
DownloadAttempts == 3

\* the most urls a url_set of the model holds
MaxUrls == 3

\* a request either gives content, which is written to the file whatever
\* the status of the response, or raises (as does open on the file)
DlOutcomes == {"content", "exception"}

\* dl_srv: the token, and for each url the outcome of each request for it,
\* in the order they are sent
DlInit ==
    /\ \E n \in 0..MaxUrls, token \in {"None", "token"} :
          \E outcomes \in [1..n -> [1..DownloadAttempts -> DlOutcomes]] :
             /\ dl_srv = [token |-> token, outcomes |-> outcomes]
             /\ dl_tries = [u \in 1..n |-> 0]
    /\ dl_i = 0
    /\ dl_j = 0
    /\ dl_saved = {}
    /\ dl_log = {}
    /\ dl_pc = "loop"

\* line 536: the next url of the set, or the return at line 575
DlNextUrl ==
    /\ dl_pc = "loop"
    /\ IF dl_i < Len(dl_srv.outcomes)
       THEN /\ dl_i' = dl_i + 1
            /\ dl_j' = 0
            /\ dl_pc' = "attempt"
       ELSE /\ dl_pc' = "returned"
            /\ UNCHANGED <<dl_i, dl_j>>
    /\ UNCHANGED <<dl_srv, dl_tries, dl_saved, dl_log, earlierVars, sortVars,
                   alignVars, apiVars, tileVars>>

\* lines 541-553 and 556-569: one pass of the inner loop, the same with and
\* without a token; the inner except clause takes every exception
DlAttempt ==
    /\ dl_pc = "attempt"
    /\ dl_j < DownloadAttempts
    /\ dl_tries' = [dl_tries EXCEPT ![dl_i] = @ + 1]
    /\ IF dl_srv.outcomes[dl_i][dl_tries[dl_i] + 1] = "content"
       THEN /\ dl_saved' = dl_saved \cup {dl_i}
            /\ dl_j' = dl_j + 5
            /\ UNCHANGED dl_log
       ELSE /\ dl_log' = dl_log \cup {Msg("could not be downloaded. Re-attempting.", dl_i)}
            /\ dl_j' = dl_j + 1
            /\ UNCHANGED dl_saved
    /\ UNCHANGED <<dl_srv, dl_i, dl_pc, earlierVars, sortVars, alignVars, apiVars,
                   tileVars>>

\* the inner loop ends without an exception, so the outer except clause of
\* lines 571-573 is not entered
DlInnerLoopEnds ==
    /\ dl_pc = "attempt"
    /\ dl_j >= DownloadAttempts
    /\ dl_pc' = "loop"
    /\ UNCHANGED <<dl_srv, dl_i, dl_j, dl_tries, dl_saved, dl_log, earlierVars,
                   sortVars, alignVars, apiVars, tileVars>>

InitDownload == DlInit /\ EarlierIdle /\ SortIdle /\ AlignIdle /\ ApiIdle /\ TileIdle
NextDownload == DlNextUrl \/ DlAttempt \/ DlInnerLoopEnds
SpecDownload == InitDownload /\ [][NextDownload]_vars

----------------------------------------------------------------------------
(* by_tile_aop: the tiles of the coordinates and the buffer *)

\* the side of a tile, in metres
TileSize == 1000

\* int(np.floor(val/1000)*1000)
round_down1000(val) == (val \div TileSize) * TileSize

\* get_buffer_coords: the four corners of the square of the buffer
get_buffer_coords(easting, northing, buffer) ==
    <<<<easting - buffer, northing - buffer>>, <<easting - buffer, northing + buffer>>,
      <<easting + buffer, northing - buffer>>, <<easting + buffer, northing + buffer>>>>

\* buffer_coords_set: the lower-left corners of the tiles, duplicates
\* removed (lines 1130-1138)
buffer_coords_set(easting, northing, buffer) ==
    {<<round_down1000(c[1]), round_down1000(c[2])>> :
        c \in UNION {Range(get_buffer_coords(easting[i], northing[i], buffer)) :
                        i \in 1..Len(easting)}}

TileEastings == {4000, 4500, 5500, 5999}
TileNorthings == {7000, 7250}
TileBuffers == {0, 1, 250, 500, 501, 1000, 1500}

\* one or two points, and a buffer
TileInit ==
    /\ \E pts \in {<<p>> : p \in TileEastings \X TileNorthings}
                  \cup {<<p, q>> : p, q \in TileEastings \X TileNorthings},
          buffer \in TileBuffers :
             tile_in = [easting |-> [i \in 1..Len(pts) |-> pts[i][1]],
                        northing |-> [i \in 1..Len(pts) |-> pts[i][2]],
                        buffer |-> buffer]
    /\ tile_out = {}
    /\ tile_pc = "call"

\* lines 1109-1154: the tiles whose files are downloaded
SelectTiles ==
    /\ tile_pc = "call"
    /\ tile_out' = buffer_coords_set(tile_in.easting, tile_in.northing, tile_in.buffer)
    /\ tile_pc' = "done"
    /\ UNCHANGED <<tile_in, earlierVars, sortVars, alignVars, apiVars, dlVars>>

InitTile == TileInit /\ EarlierIdle /\ SortIdle /\ AlignIdle /\ ApiIdle /\ DlIdle
NextTile == SelectTiles
SpecTile == InitTile /\ [][NextTile]_vars

----------------------------------------------------------------------------
(* Properties *)

\* the publication stamp (date and time) of a file, as one number
Stamp(f) == f.date * (MaxTime + 1) + f.time
Stamped(fs) == {f \in fs : f.date # NoStamp}

\* C1: get_recent_publication returns exactly the files of its argument
\* whose publication stamp (date and time) is the maximum over the argument;
\* files with identical stamps are all returned.
C1_RecentIsStampMax ==
    rp_pc = "done" =>
        Range(rp_out) =
            {f \in Stamped(Range(rp_in)) :
                \A g \in Stamped(Range(rp_in)) : Stamp(g) <= Stamp(f)}

\* the policy the shape of a file name stands for
ShapePolicy(f) ==
    IF f.lab # "" THEN "lab" ELSE IF f.ym # 0 THEN "site-date" ELSE "site-all"

\* the files of a table, under its plain or its _pub name
Members(fs, t) == {f \in fs : f.table = t}

\* C3: find_table_types raises the conflicting-schedule error exactly when
\* the member files of some data table (with or without _pub) have more than
\* one shape-derived policy, and it returns a mapping only when every
\* table's members agree, the mapping giving each table that one policy.
C3_ConflictRaises ==
    tt_pc # "call" /\ tt_pc # "idle" =>
        LET fs == Range(tt_in)
            conflict == \E t \in DataTables :
                Cardinality({ShapePolicy(f) : f \in Members(fs, t)}) > 1
        IN  /\ conflict <=> tt_pc = "raised"
            /\ tt_pc = "done" =>
                 /\ DOMAIN tt_out = {t \in DataTables : Members(fs, t) # {}}
                 /\ \A t \in DOMAIN tt_out :
                        \A f \in Members(fs, t) : ShapePolicy(f) = tt_out[t]

\* a conflict between a plain and a _pub member has been raised
C3_Witness ==
    /\ tt_pc = "raised"
    /\ \E f, g \in Range(tt_in) :
          f.table = g.table /\ f.pub /\ ~g.pub /\ ShapePolicy(f) # ShapePolicy(g)

\* the pubFormat variants of a base format: the format itself, or the
\* format followed by a rounding rule
Variants(base) == {base, base \o "(floor)", base \o "(round)"}

\* the type the type-mapping table lists for a variables row
ListedType(r) ==
    CASE r.dataType = "real" -> "float64"
      [] r.dataType \in {"integer", "unsigned integer", "signed integer"} -> "int64"
      [] r.dataType \in {"string", "uri"} -> "string"
      [] r.dataType = "dateTime" ->
            IF r.pubFormat \in Variants("yyyy-MM-dd'T'HH:mm:ss'Z'")
            THEN "timestamp[s, UTC]"
            ELSE IF r.pubFormat \in Variants("yyyy-MM-dd") THEN "date64"
            ELSE IF r.pubFormat \in Variants("yyyy") THEN "int64"
            ELSE "string"

\* C4: get_variables gives every variables row the type the type-mapping
\* table lists for its dataType and pubFormat, and the schema has one field
\* per input row, in input order.
C4_TypeMapping ==
    gv_pc = "done" =>
        /\ Len(gv_out) = Len(gv_in)
        /\ \A i \in 1..Len(gv_in) :
              /\ gv_out[i].name = gv_in[i].fieldName
              /\ gv_out[i].type = ListedType(gv_in[i])

IdsOf(tab) == {r.srfID : r \in Range(tab)}

\* C5: remove_srf_dups returns exactly one row per distinct srfID of its
\* input, an input row whose lastUpdateDateTime is the maximum among the
\* input rows of that srfID, and nothing else.
C5_SrfLastWriteWins ==
    srf_pc \in {"once", "twice"} =>
        /\ Len(srf_out) = Cardinality(IdsOf(srf_in))
        /\ IdsOf(srf_out) = IdsOf(srf_in)
        /\ \A k \in 1..Len(srf_out) :
              /\ srf_out[k] \in Range(srf_in)
              /\ \A r \in Range(srf_in) :
                    r.srfID = srf_out[k].srfID => r.upd <= srf_out[k].upd

\* an earlier version of a flag has been discarded
C5_Witness ==
    /\ srf_pc = "once"
    /\ \E r \in Range(srf_in) : r \notin Range(srf_out)
    /\ \E r, q \in Range(srf_in) : r.srfID = q.srfID /\ r.upd < q.upd

\* C6: remove_srf_dups applied to its own output returns that output: the
\* same rows in the same order.
C6_SrfIdempotent ==
    srf_pc = "twice" => srf_out2 = srf_out

RECURSIVE SumRows(_)
SumRows(fs) ==
    IF fs = {} THEN 0
    ELSE LET f == CHOOSE f \in fs : TRUE IN f.n + SumRows(fs \ {f})

JobFiles == Range(filepaths)

\* the dedup key of a file of a lab or a site-all table
DedupKey(f, ttype) == IF ttype = "lab" THEN f.lab ELSE f.site

InLoop == pc \in {"tables", "done"}

\* C2: for a lab or site-all table the files read are exactly one per key,
\* and the file read for a key is one of that key's files with the greatest
\* publication stamp (date and time) among them.
C2_OnePerKeyMostRecent ==
    \A j \in DOMAIN readpaths :
        table_types[j] \in {"lab", "site-all"} =>
            LET tt == table_types[j]
                mine == Stamped(Members(JobFiles, j))
                keys == {DedupKey(f, tt) : f \in mine}
                rd == readpaths[j]
            IN  /\ Len(rd) = Cardinality(keys)
                /\ \A k \in keys :
                      \E i \in 1..Len(rd) :
                          /\ DedupKey(rd[i], tt) = k
                          /\ rd[i] \in mine
                          /\ \A g \in mine :
                                DedupKey(g, tt) = k => Stamp(g) <= Stamp(rd[i])

Perms(seq) == {q \in [1..Len(seq) -> Range(seq)] : Range(q) = Range(seq)}

\* C7: the rows of a stacked table, and their order, are those that
\* stacking the same files listed in any other order gives.
C7_OrderIndependent ==
    pc = "done" =>
        \A j \in DOMAIN table_types :
            OutName(j) \in DOMAIN stacklist =>
                \A q \in Perms(filepaths) :
                    \A keys \in Orderings(KeysOf(q, j, table_types[j])) :
                        \A idset \in SrfOrders(to_pandas(tablepaths_of(q, j), j), j) :
                            stack_rows(q, j, table_types[j], keys, idset)
                                = stacklist[OutName(j)].rows

\* C8: for a site-date table other than science_review_flags every file
\* matching the table name is read, once, and the stacked table has as many
\* rows as those files together.
C8_SiteDateKeepsAll ==
    \A j \in DOMAIN readpaths :
        table_types[j] = "site-date" /\ j # "science_review_flags" =>
            /\ Range(readpaths[j]) = Members(JobFiles, j)
            /\ Len(readpaths[j]) = Cardinality(Members(JobFiles, j))
            /\ OutName(j) \in DOMAIN stacklist =>
                  Len(stacklist[OutName(j)].rows) = SumRows(Members(JobFiles, j))

\* two monthly files of one site have been stacked to one table
C8_Witness ==
    /\ pc = "done"
    /\ "tab_a" \in DOMAIN stacklist
    /\ \E f, g \in Members(JobFiles, "tab_a") :
          f.site = g.site /\ f.ym # g.ym
          /\ Len(stacklist["tab_a"].rows) = f.n + g.n

\* the variables file read has no rows for table j, under either name
NoVariablesRows(j) ==
    /\ varfile # <<>>
    /\ j # "sensor_positions"
    /\ \A i \in 1..Len(varfile) :
          varfile[i].table # j /\ varfile[i].table # j \o "_pub"

\* an exception of the loop over the tables comes from a missing publication
\* stamp: of every file of a key, or of a file read
StampLess(j) == \E f \in Members(JobFiles, j) : f.date = NoStamp

\* a file of table j that cannot be read at all
Unreadable(j) == \E f \in Members(JobFiles, j) : f.parse = "bad"

C10_NoVariablesFileStillStacks ==
    (\A f \in JobFiles : ~IsVariablesPath(f)) =>
        /\ exc # "KeyError"
        /\ pc = "done" =>
              \A j \in DOMAIN table_types :
                  Msg("Variables file not found", j) \in log

\* the first ingestion of table j, under the schema of its variables rows,
\* meets a file that does not parse under it
TypedIngestFails(j) ==
    /\ j \in DOMAIN readpaths
    /\ tablepkgvar(j) # <<>>
    /\ \E f \in Range(readpaths[j]) : f.parse # "ok"

\* a file of table j cannot be read even as strings
StringIngestFails(j) == \E f \in Range(readpaths[j]) : f.parse = "bad"

\* C11: when the typed ingestion of a table raises, the table is ingested
\* again with every field a string, a message naming the table is logged and
\* each column ends either cast or left a string; when that ingestion raises
\* too, the table is skipped with a message; either way the loop goes on to
\* the next table and the job does not abort for it.
C11_TypedFailureFallsBack ==
    \A j \in DOMAIN table_types :
        TypedIngestFails(j) =>
            /\ pc = "raised" => StampLess(j)
            /\ pc # "raised" => j \notin todo
            /\ (j \notin todo /\ ~StringIngestFails(j)) =>
                  /\ Msg("schema did not match data", j) \in log
                  /\ Msg("Failed to stack table", j) \notin log
                  /\ OutName(j) \in DOMAIN stacklist
                  /\ stacklist[OutName(j)].typing = "string"
                  /\ \A ct \in stacklist[OutName(j)].fields :
                        ct[2] \in {"cast", "string"}
            /\ StringIngestFails(j) =>
                  /\ Msg("Failed to stack table", j) \in log
                  /\ Msg("schema did not match data", j) \notin log
                  /\ OutName(j) \notin DOMAIN stacklist

\* a table has been ingested again as strings, one of its columns then cast
\* and another left a string, and the job has gone on to its end
C11_Witness ==
    /\ pc = "done"
    /\ TypedIngestFails("tab_a")
    /\ Msg("schema did not match data", "tab_a") \in log
    /\ \E c, d \in stacklist["tab_a"].fields : c[2] = "cast" /\ d[2] = "string"

\* the tables of the listing: the data tables, and the two reserved tables
TablesListed == {t \in AllTables : Members(JobFiles, t) # {}}

\* some lab or site of table j has files, none of them with a stamp
UnresolvedGroup(j) ==
    /\ j \in DOMAIN table_types
    /\ table_types[j] \in {"lab", "site-all"}
    /\ \E f \in Members(JobFiles, j) :
          \A g \in Members(JobFiles, j) :
              DedupKey(g, table_types[j]) = DedupKey(f, table_types[j])
                  => g.date = NoStamp

\* every file of table t can be stacked: it parses and carries a stamp
Sound(t) == \A f \in Members(JobFiles, t) : f.parse = "ok" /\ f.date # NoStamp

\* C12: when no file of some lab or site of a table has a publication
\* stamp, only that table fails: the job, here one that has found its
\* variables file, does not abort, and at its end the other tables are in
\* the bundle.
C12_UnresolvedRecencyIsolated ==
    \A j \in DOMAIN table_types :
        (UnresolvedGroup(j) /\ \E f \in JobFiles : IsVariablesPath(f)) =>
            /\ pc # "raised"
            /\ pc = "done" =>
                  /\ OutName(j) \notin DOMAIN stacklist
                  /\ \A t \in DOMAIN table_types \ {j} :
                        Sound(t) => OutName(t) \in DOMAIN stacklist

\* the members of table t imply more than one policy
Ambiguous(t) == Cardinality({ShapePolicy(f) : f \in Members(JobFiles, t)}) > 1

\* C13: a table whose files imply two policies fails alone: the job does
\* not abort, and the other tables are classified, stacked and in the bundle
\* at its end.
C13_AmbiguousScheduleIsolated ==
    (\E t \in DataTables : Ambiguous(t)) =>
        /\ pc # "raised"
        /\ pc = "done" =>
              \A t \in TablesListed :
                  (~Ambiguous(t) /\ Sound(t)) =>
                      /\ t \in DOMAIN table_types
                      /\ OutName(t) \in DOMAIN stacklist

\* the sort key of a stacked row: the site, the horizontal and vertical
\* position, then the first of the date columns the table has
RowSortKey(r) ==
    <<SiteRank(r.siteID), PosRank(r.horizontalPosition),
      PosRank(r.verticalPosition)>>
    \o (IF datevar_of(DOMAIN r.dates) = "None" THEN <<>>
        ELSE <<r.dates[datevar_of(DOMAIN r.dates)]>>)

Ascending(rows) ==
    \A i, k \in 1..Len(rows) :
        i < k => ~LexLess(RowSortKey(rows[k]), RowSortKey(rows[i]))

\* C14: every data table of the returned bundle is in ascending order of
\* its key, sensor_positions and science_review_flags included.
C14_BundleTablesSorted ==
    pc = "done" =>
        \A j \in DOMAIN table_types :
            OutName(j) \in DOMAIN stacklist =>
                Ascending(stacklist[OutName(j)].rows)

ProvenanceColumns ==
    {"domainID", "siteID", "horizontalPosition", "verticalPosition",
     "publicationDate", "release"}

\* the columns of the stacked table j: those of its files and those added
StackedColumns(j) ==
    DataCols(j) \cup provenance_cols(to_pandas(readpaths[j], j), j, table_types[j])

\* C15: at the end of the job, for every stacked data table read under the
\* variables file and every provenance column the table has, the final
\* variables table has a row of that table and that field name.
C15_ProvenanceDocumented ==
    pc = "done" =>
        \A j \in DOMAIN table_types \cap DataTables :
            OutName(j) \in DOMAIN stacklist =>
                \A c \in ProvenanceColumns \cap StackedColumns(j) :
                    <<j, c>> \in stacklist[VarKey].fields

\* the tables stacked into the bundle, and the release tags of the files
\* they were read from
StackedTables == {j \in DOMAIN readpaths : OutName(j) \in DOMAIN stacklist}
StackedFiles == UNION {Range(readpaths[j]) : j \in StackedTables}
StackedReleaseTags == {f.rel : f \in StackedFiles} \cap ReleaseTags

ReleaseCitationKeys == {"citation_" \o dpnum(dpid) \o "_" \o r : r \in ReleaseTags}
MultipleReleasesLogged == Msg("Multiple data releases", "") \in log

\* the second case of C16: with more than one release tag the message is
\* logged, no release citation is added, and the bundle holds every table
\* read, the tables skipped after two failed ingestions excepted
SeveralReleasesCase ==
    Cardinality(StackedReleaseTags) > 1 =>
        /\ MultipleReleasesLogged
        /\ ReleaseCitationKeys \cap DOMAIN stacklist = {}
        /\ \A j \in DOMAIN readpaths :
              \/ OutName(j) \in DOMAIN stacklist
              \/ Msg("Failed to stack table", j) \in log

\* C16 as stated: when the stacked files carry exactly one RELEASE-YYYY tag
\* the bundle contains a citation for that release; when they carry more than
\* one, the message about multiple releases is logged, no release citation is
\* added and the bundle with all stacked tables is still returned.
C16_ReleaseCitation ==
    pc = "done" =>
        /\ Cardinality(StackedReleaseTags) = 1 =>
              \A r \in StackedReleaseTags :
                  LET k == "citation_" \o dpnum(dpid) \o "_" \o r
                  IN  k \in DOMAIN stacklist /\ stacklist[k].typing = "citation"
        /\ SeveralReleasesCase

\* C16 amended: with exactly one RELEASE-YYYY tag get_citation is asked for
\* that release, and the bundle has the entry for it exactly when the call
\* returns (a citation when it returns one); when the call raises, no entry is
\* added and the bundle is still returned.  With more than one tag the message
\* is logged, no release citation is added and the bundle is still returned.
C16_ReleaseCitationWhenAnswered ==
    pc = "done" =>
        /\ Cardinality(StackedReleaseTags) = 1 =>
              \A r \in StackedReleaseTags :
                  LET k == "citation_" \o dpnum(dpid) \o "_" \o r
                  IN  /\ cite.rel # "none"
                      /\ k \in DOMAIN stacklist <=> cite.rel \in {"text", "None"}
                      /\ cite.rel = "text" => stacklist[k].typing = "citation"
                      /\ ReleaseCitationKeys \cap DOMAIN stacklist \subseteq {k}
        /\ SeveralReleasesCase

C16_Witness ==
    /\ pc = "done"
    /\ StackedReleaseTags = {"RELEASE-2023"}
    /\ "PROVISIONAL" \in releases
    /\ cite.rel = "text"
    /\ ("citation_" \o dpnum(dpid) \o "_RELEASE-2023") \in DOMAIN stacklist

C16_SeveralWitness ==
    /\ pc = "done"
    /\ Cardinality(StackedReleaseTags) > 1
    /\ MultipleReleasesLogged

\* the entries of the bundle that hold stacked data, and those among them
\* stacked by the loop over the tables
DataEntries ==
    {k \in DOMAIN stacklist :
        stacklist[k].typing \in {"schema", "string", "inferred", "frame"}}
LoopEntries == {OutName(j) : j \in DOMAIN table_types} \cap DOMAIN stacklist

\* the rows of entry k carry publicationDate and release, the stamp and the
\* release of the file each row was read from
CarriesProvenance(k) ==
    \A i \in 1..Len(stacklist[k].rows) :
        LET r == stacklist[k].rows[i]
        IN  /\ r.publicationDate = <<r.src.date, r.src.time>>
            /\ r.release = r.src.rel

\* C17 as stated: every stacked data table in the bundle carries
\* publicationDate and release, with the stamp and the release tag of the
\* file each row was read from.
C17_ProvenanceOnEveryTable ==
    pc = "done" => \A k \in DataEntries : CarriesProvenance(k)

\* C17 amended: every data table stacked by the loop over the tables carries
\* publicationDate and release, with the stamp and the release tag of the
\* file each row was read from; the table stacked from per-sample files
\* carries neither.
C17_ProvenanceOnLoopTables ==
    pc = "done" =>
        /\ \A k \in LoopEntries : CarriesProvenance(k)
        /\ \A k \in DataEntries \ LoopEntries :
              \A i \in 1..Len(stacklist[k].rows) :
                  /\ stacklist[k].rows[i].publicationDate = <<>>
                  /\ stacklist[k].rows[i].release = ""

C17_Witness ==
    /\ pc = "done"
    /\ \E k \in DataEntries \ LoopEntries : Len(stacklist[k].rows) > 0
    /\ \E k \in LoopEntries :
          /\ CarriesProvenance(k)
          /\ \E i \in 1..Len(stacklist[k].rows) :
                /\ stacklist[k].rows[i].release = "RELEASE-2024"
                /\ stacklist[k].rows[i].publicationDate = <<1, 1>>

\* the keys ks are in ascending string order
AscendingKeys(ks) ==
    \A i \in 1..(Len(ks) - 1) : str_lt(ord_of(ks[i]), ord_of(ks[i + 1]))

NumberedTables == {"science_review_flags", "sensor_positions"}

C19_FieldSpectraRejected ==
    (aop_pc # "idle" /\ aop_in.dpid = FieldSpectra) =>
        /\ aop_calls = 0
        /\ aop_pc \notin {"request", "listing", "returned"}
        /\ aop_pc = "raised" => aop_exc = "is the Field spectral data product"

\* the components that contain a year and month, YYYY-MM
WithYearMonth == {"2021-05", "2021-06", "x2021-06y"}

\* C20: table_type_formats answers "lab" for a name of fewer than seven
\* components; for seven or more it answers "site-date" when some component
\* contains a YYYY-MM token and "site-all" when none does.
C20_TableTypeFormats ==
    fmt_pc = "done" =>
        fmt_out = (IF Len(fmt_in) < 7 THEN "lab"
                   ELSE IF \E i \in 1..Len(fmt_in) : fmt_in[i] \in WithYearMonth
                   THEN "site-date"
                   ELSE "site-all")

C20_Witness ==
    /\ fmt_pc = "done"
    /\ Len(fmt_in) = 7
    /\ fmt_out = "site-date"
    /\ \A i \in 1..Len(fmt_in) : fmt_in[i] \in {"csv", "2021-5", "x2021-06y"}

\* C21: once the tables are classified, a listing with a sensor_positions
\* file has sensor_positions as site-all in the policy map, and a listing
\* with a science_review_flags file has science_review_flags as site-date,
\* whichever other tables are listed and also when none is (listings with a
\* table under conflicting schedules are left aside here).
C21_ReservedTablesForced ==
    (pc \notin {"idle", "start"} /\ ~find_table_types_raises(filepaths)) =>
        /\ PathHas("sensor_positions") =>
              /\ "sensor_positions" \in DOMAIN table_types
              /\ table_types["sensor_positions"] = "site-all"
        /\ PathHas("science_review_flags") =>
              /\ "science_review_flags" \in DOMAIN table_types
              /\ table_types["science_review_flags"] = "site-date"


\* the date column the sort uses: the first present of collectDate, endDate,
\* startDate, date, endDateTime, startDateTime
FirstDateColumn(cols) ==
    IF "collectDate" \in cols THEN "collectDate"
    ELSE IF "endDate" \in cols THEN "endDate"
    ELSE IF "startDate" \in cols THEN "startDate"
    ELSE IF "date" \in cols THEN "date"
    ELSE IF "endDateTime" \in cols THEN "endDateTime"
    ELSE IF "startDateTime" \in cols THEN "startDateTime"
    ELSE "None"

\* the key the rows are to be ascending by
ExpectedKey(r, cols) ==
    LET dc == FirstDateColumn(cols)
    IN  <<SiteRank(r.siteID)>>
        \o (IF "horizontalPosition" \in cols
            THEN <<PosRank(r.horizontalPosition), PosRank(r.verticalPosition)>>
            ELSE <<>>)
        \o (IF dc = "None" THEN <<>> ELSE <<r.dates[dc]>>)

\* the columns the sort key names are all columns of the table
SortKeyPresent(cols) ==
    /\ "siteID" \in cols
    /\ "horizontalPosition" \in cols => "verticalPosition" \in cols

SameRows(a, b) ==
    /\ Len(a) = Len(b)
    /\ {r.k : r \in Range(a)} = {r.k : r \in Range(b)}

\* C22: when the columns of the sort key are present, sort_dat returns the
\* rows of the table ascending by (siteID, horizontalPosition,
\* verticalPosition, date column) when horizontalPosition is a column and by
\* (siteID, date column) otherwise, the date column being the first present
\* of collectDate, endDate, startDate, date, endDateTime, startDateTime, and
\* the key having no date part when none of them is present.
C22_SortKey ==
    (sd_pc = "done" /\ SortKeyPresent(sd_in.cols)) =>
        /\ SameRows(sd_out, sd_in.rows)
        /\ \A i, m \in 1..Len(sd_out) :
              i < m => ~LexLess(ExpectedKey(sd_out[m], sd_in.cols),
                                ExpectedKey(sd_out[i], sd_in.cols))

\* a table with two date columns and the position columns, whose rows came
\* out in another order than they went in
C22_Witness ==
    /\ sd_pc = "done"
    /\ SortKeyPresent(sd_in.cols)
    /\ {"horizontalPosition", "endDate", "startDate"} \subseteq sd_in.cols
    /\ Len(sd_out) = 4
    /\ \E i \in 1..4 : sd_out[i].k # sd_in.rows[i].k

\* the order of the rows, by their names
RowOrder(rows) == [i \in 1..Len(rows) |-> rows[i].k]

\* the sort by site (and position) raises: a column it names is missing
SiteSortFails(cols) == ~SortKeyPresent(cols)

\* C23: when the sort by site fails, sort_dat returns the rows in their
\* order as ingested.
C23_FailedSortKeepsOrder ==
    (sd_pc = "done" /\ SiteSortFails(sd_in.cols)) =>
        RowOrder(sd_out) = RowOrder(sd_in.rows)

\* C23 as amended: when the sort by site fails, sort_dat still returns every
\* row; a table without horizontalPosition that has a date column comes back
\* ascending by that date column, and every other table comes back in its
\* order as ingested.
C23_FailedSortFallsBack ==
    (sd_pc = "done" /\ SiteSortFails(sd_in.cols)) =>
        LET dc == FirstDateColumn(sd_in.cols)
        IN  /\ SameRows(sd_out, sd_in.rows)
            /\ IF "horizontalPosition" \notin sd_in.cols /\ dc # "None"
               THEN \A i, m \in 1..Len(sd_out) :
                       i < m => sd_out[i].dates[dc] <= sd_out[m].dates[dc]
               ELSE RowOrder(sd_out) = RowOrder(sd_in.rows)

\* a table without siteID and without horizontalPosition whose rows came
\* back in the order of their dates, not in the order they went in
C23_Witness ==
    /\ sd_pc = "done"
    /\ SiteSortFails(sd_in.cols)
    /\ "horizontalPosition" \notin sd_in.cols
    /\ FirstDateColumn(sd_in.cols) # "None"
    /\ Len(sd_out) >= 3
    /\ RowOrder(sd_out) # RowOrder(sd_in.rows)

\* C24: in the table align_sp_cols returns, no legacy column is left, and
\* for every legacy/current pair whose current column the table has, each
\* row holds its own current value where that was not null and its legacy
\* value where it was; the rows are the rows given, in their order.
C24_LegacyFillsNulls ==
    sp_pc = "done" =>
        /\ Len(sp_out.rows) = Len(sp_in.rows)
        /\ \A n \in 1..Len(oldcols) :
              LET k == oldcols[n][1]
                  cur == oldcols[n][2]
              IN  /\ k \notin sp_out.cols
                  /\ cur \in sp_in.cols =>
                        /\ cur \in sp_out.cols
                        /\ \A i \in 1..Len(sp_in.rows) :
                              sp_out.rows[i][cur] =
                                 IF sp_in.rows[i][cur] # ""
                                 THEN sp_in.rows[i][cur]
                                 ELSE sp_in.rows[i][k]

\* a table of two rows: one with a null current value and a legacy value,
\* one with a current value and another legacy value
C24_Witness ==
    /\ sp_pc = "done"
    /\ Len(sp_in.rows) = 2
    /\ "sensorLocationID" \in sp_in.cols
    /\ sp_in.rows[1]["sensorLocationID"] = ""
    /\ sp_in.rows[1]["name"] = "CFGLOC1"
    /\ sp_in.rows[2]["sensorLocationID"] = "CFGLOC3"
    /\ sp_in.rows[2]["name"] = "CFGLOC2"
    /\ sp_out.rows[1]["sensorLocationID"] = "CFGLOC1"

ReadmeKey == "readme_" \o dpnum(dpid)

\* the tables the readme of the bundle lists
ReadmeTables == stacklist[ReadmeKey].fields

\* the data tables in the bundle: those the loop stacked and the table of
\* the per-sample files
ProducedTables ==
    StackedTables
    \cup (IF FrameName(dpid) \in DOMAIN stacklist THEN {FrameName(dpid)} ELSE {})

\* C25: the readme of the finished bundle lists exactly the tables that were
\* produced; a table that failed to stack is not listed.
C25_ReadmeListsProducedTables ==
    (pc = "done" /\ ReadmeKey \in DOMAIN stacklist) =>
        ReadmeTables = ProducedTables

\* C25 as amended: the readme of the bundle lists exactly the tables of the
\* policy map, which is built before any table is stacked: every table the
\* loop stacked is listed, and so is a table that failed to stack.
C25_ReadmeListsClassifiedTables ==
    (pc \in {"tables", "final", "done"} /\ ReadmeKey \in DOMAIN stacklist) =>
        /\ ReadmeTables = DOMAIN table_types
        /\ StackedTables \subseteq ReadmeTables
        /\ \A j \in DOMAIN table_types :
              Msg("Failed to stack table", j) \in log => j \in ReadmeTables

\* a finished bundle with a readme, a stacked table and a table that failed
\* to stack
C25_Witness ==
    /\ pc = "done"
    /\ ReadmeKey \in DOMAIN stacklist
    /\ StackedTables # {}
    /\ \E j \in DOMAIN table_types :
          /\ Msg("Failed to stack table", j) \in log
          /\ OutName(j) \notin DOMAIN stacklist

\* vlist as the variables file gives it, before any table is stacked
vlist_read == group_by_table(varfile)

\* C26: when the loop has ended, what it leaves does not depend on the order
\* in which it assembled the tables: every stacked table is what its own
\* files give, the variables rows of a stacked table are the rows read for it
\* with its own added fields, those of any other table are as read, and the
\* release tags, as a set, are the tags of the files stacked.
C26_OrderIndependent ==
    (pc = "tables" /\ todo = {}) =>
        /\ \A j \in StackedTables :
              \E keys \in Orderings(KeysOf(filepaths, j, table_types[j])),
                 idset \in SrfOrders(to_pandas(readpaths[j], j), j) :
                    /\ readpaths[j] = resolve_paths(filepaths, j, table_types[j], keys)
                    /\ stacklist[OutName(j)].rows =
                          stack_rows(filepaths, j, table_types[j], keys, idset)
        /\ vlist = [t \in DOMAIN vlist_read |->
                      IF t \in StackedTables
                      THEN add_fields(vlist_read, t, table_types[t])[t]
                      ELSE vlist_read[t]]
        /\ releases = {RelSearch(f) : f \in StackedFiles}

\* the end of a loop that stacked two data tables, which the loop takes in
\* either order, both with variables rows, read from files of more than one
\* release
C26_Witness ==
    /\ pc = "tables"
    /\ todo = {}
    /\ Cardinality((StackedTables \cap DOMAIN vlist) \ NumberedTables) >= 2
    /\ Cardinality(releases) >= 2

\* C27: get_api sends at most 5 requests; a response it returns is one
\* whose rate limit is not exhausted, unless all 5 attempts are used, every
\* exhausted answer before it was waited out and the request sent again; a
\* status other than 200 yields None.
C27_RetriesWhileRateLimited ==
    api_pc = "returned" =>
        /\ api_reqs <= MaxAttempts
        /\ api_slept = Cardinality({i \in 1..api_reqs :
                                       RateLimitReached(api_srv.answers[i])})
        /\ IsResponse(api_ret) =>
              \/ ~RateLimitReached(api_ret)
              \/ api_reqs = MaxAttempts
        /\ ~StatusCode200(api_srv.answers[api_reqs]) => api_ret = "None"

\* every request for url u raised
AllAttemptsFail(u) ==
    \A k \in 1..DownloadAttempts : dl_srv.outcomes[u][k] = "exception"

\* C28: download_urls sends at most 3 requests for a url and none after the
\* first that succeeds; when it has returned, every url was requested, and a
\* url whose requests all failed is logged as 'could not be downloaded and
\* was skipped'.
C28_SkippedFileLogged ==
    /\ \A u \in DOMAIN dl_tries :
          /\ dl_tries[u] <= DownloadAttempts
          /\ \A k \in 1..(dl_tries[u] - 1) : dl_srv.outcomes[u][k] = "exception"
    /\ dl_pc = "returned" =>
          \A u \in DOMAIN dl_tries :
             /\ dl_tries[u] >= 1
             /\ AllAttemptsFail(u) =>
                   Msg("could not be downloaded and was skipped", u) \in dl_log

\* the lower-left corners of the tiles of the grid around the points
TileGrid == {<<e * TileSize, n * TileSize>> : e \in 0..9, n \in 4..10}

\* the tile with lower-left corner t meets the square of side 2b around
\* the point (e, n)
TileMeetsSquare(t, e, n, b) ==
    /\ t[1] <= e + b /\ e - b < t[1] + TileSize
    /\ t[2] <= n + b /\ n - b < t[2] + TileSize

\* C29: for every point and the buffer given, every tile that meets the
\* square [e - b, e + b] x [n - b, n + b] is selected, the tile of the point
\* itself among them.
C29_TilesOfBufferSelected ==
    tile_pc = "done" =>
        \A i \in 1..Len(tile_in.easting) :
            \A t \in TileGrid :
                TileMeetsSquare(t, tile_in.easting[i], tile_in.northing[i],
                                tile_in.buffer) => t \in tile_out

\* C30: stack_by_table deletes the input files only when the stacking has
\* returned a bundle; when the stacking returns nothing or raises, no input
\* file is deleted and stack_by_table does not raise.
C30_InputsKeptWithoutBundle ==
    /\ returned.deleted => pc = "returned"
    /\ pc # "raised"
=============================================================================
